---- MODULE Spec2Model ----
(***************************************************************************)
(* Model of the atom-plan execution engine of agenticAIExperiment:        *)
(* Calculator (atom_pipeliner.py) and CalculatorRunnable                  *)
(* (runnables/calculator_runnable.py), with the arithmetic runnables and  *)
(* the DeferredRunnable they are built from.                              *)
(*                                                                         *)
(* Numbers are exact rationals <<numerator, denominator>> in lowest terms *)
(* with a positive denominator; Python's int/float distinction and float  *)
(* rounding are not modelled.                                             *)
(***************************************************************************)
EXTENDS Integers, Sequences, FiniteSets, TLC

\* ------------------------------------------------------------------ bounds
\* Atoms in front of the terminal atom of a plan document.
MaxTools == 2
\* Numeric literals of the arithmetic plans range over 0..MaxLit.
MaxLit == 1
\* Executions observed per plan document.
MaxRuns == 2

\* The interpreter's recursion limit, scaled to the plans of the model: every
\* acyclic dependency chain is shorter than it.
RecursionLimit == 2 * (MaxTools + 2)

\* ---------------------------------------------------------------- numbers
Abs(x) == IF x < 0 THEN -x ELSE x

RECURSIVE GCD(_, _)
GCD(x, y) == IF y = 0 THEN x ELSE GCD(y, x % y)

\* The rational n/d (d # 0) in lowest terms.
Norm(n, d) ==
    LET g == GCD(Abs(n), Abs(d))
        s == IF d < 0 THEN -1 ELSE 1
    IN  <<(s * n) \div g, (s * d) \div g>>

Num(n) == <<n, 1>>
Zero == Num(0)
RAdd(x, y) == Norm(x[1] * y[2] + y[1] * x[2], x[2] * y[2])
RSub(x, y) == Norm(x[1] * y[2] - y[1] * x[2], x[2] * y[2])
RMul(x, y) == Norm(x[1] * y[1], x[2] * y[2])
RDiv(x, y) == Norm(x[1] * y[2], x[2] * y[1])

\* ------------------------------------------------------------------ atoms
\* An input value: a numeric literal, or the back-reference "<result_of_N>".
Lit(n) == [ref |-> FALSE, v |-> n]
Ref(n) == [ref |-> TRUE, v |-> n]
NoInput == Lit(0)

ToolAtom(id, name, a, b, deps) ==
    [id |-> id, kind |-> "tool", name |-> name, a |-> a, b |-> b, dependsOn |-> deps]
FinalAtom(id, deps) ==
    [id |-> id, kind |-> "final", name |-> "report", a |-> NoInput, b |-> NoInput,
     dependsOn |-> deps]

Ops == {"add", "subtract", "multiply", "divide"}

\* -------------------------------------------------- arithmetic runnables
\* A call's result: a value, or the exception it raises.
Value(x) == [ok |-> TRUE, val |-> x, err |-> ""]
Raise(e) == [ok |-> FALSE, val |-> Zero, err |-> e]

\* flatten_numbers on one number is the one-element list of it, so the sum
\* (product) of constructor values and input is value + input (value * input).
AdditionCall(value, input) == Value(RAdd(value, input))

SubtractionCall(value, input) == Value(RSub(input, value))

MultiplicationCall(value, input) == Value(RMul(value, input))

DivisionCallSwapped(value, input) ==
    IF input = Zero THEN Raise("ZeroDivisionError") ELSE Value(RDiv(value, input))
DivisionCall(value, input) ==
    IF value = Zero THEN Raise("ZeroDivisionError") ELSE Value(RDiv(input, value))

\* _create_deferrable_runnable / _get_factory: the factory of a known name,
\* applied to its constructor argument b and invoked with a.
KnownName(name) == name \in Ops
FactoryCall(name, b, a) ==
    CASE name = "add" -> AdditionCall(b, a)
      [] name = "subtract" -> SubtractionCall(b, a)
      [] name = "multiply" -> MultiplicationCall(b, a)
      [] name = "divide" -> DivisionCall(b, a)
      [] OTHER -> Raise("ValueError")

\* ------------------------------------------------------ results context
\* A dict from atom id to value, as a function on the ids stored so far.
EmptyResults == <<>>
Stored(results, id) == id \in DOMAIN results
PutAlone(results, id, x) == [i \in {id} |-> x]
Put(results, id, x) ==
    [i \in DOMAIN results \cup {id} |-> IF i = id THEN x ELSE results[i]]

\* _resolve_inputs_non_linear / _resolve_inputs: one input value against the
\* results; a back-reference to an id without a stored result raises KeyError.
ResolveValueDefaulting(value, results) ==
    IF value.ref
    THEN IF Stored(results, value.v) THEN Value(results[value.v]) ELSE Value(Zero)
    ELSE Value(Num(value.v))
ResolveValue(value, results) ==
    IF value.ref
    THEN IF Stored(results, value.v) THEN Value(results[value.v]) ELSE Raise("KeyError")
    ELSE Value(Num(value.v))

\* The whole input mapping, in key order a, b; the first failure propagates.
ResolveInputs(raw, results) ==
    LET ra == ResolveValue(raw.a, results)
        rb == ResolveValue(raw.b, results)
    IN  IF ~ra.ok THEN [ok |-> FALSE, a |-> Zero, b |-> Zero, err |-> ra.err]
        ELSE IF ~rb.ok THEN [ok |-> FALSE, a |-> Zero, b |-> Zero, err |-> rb.err]
        ELSE [ok |-> TRUE, a |-> ra.val, b |-> rb.val, err |-> ""]

\* DeferredRunnable.__init__(self, factory, get_constructor_arg,
\* get_invoke_arg, config = None): a call binds its keyword arguments to these
\* parameters; a keyword that names no parameter, or a parameter without a
\* default left unbound, raises TypeError ("" when the call binds).
DeferredParameters == {"factory", "get_constructor_arg", "get_invoke_arg", "config"}
DeferredRequired == {"factory", "get_constructor_arg", "get_invoke_arg"}
DeferredInit(keywords) ==
    IF keywords \subseteq DeferredParameters /\ DeferredRequired \subseteq keywords
    THEN "" ELSE "TypeError"
\* The keywords of the construction in Calculator.build_execution_plan and of
\* the one in CalculatorRunnable._build_execution_plan.
CalculatorKeywords == {"factory", "get_constructor_args"}
RunnableKeywords == {"factory", "get_constructor_arg", "get_invoke_arg", "config"}

\* DeferredRunnable._call: the constructor argument (b) is resolved from the
\* config, the concrete runnable is built from it, the invocation argument is
\* the invoke accessor's value (a) when one was supplied and the input
\* otherwise, and the concrete runnable is invoked with it.
DeferredCall(node, hasInvokeArg, input, config) ==
    LET r == ResolveInputs(node, config)
    IN  IF ~r.ok THEN Raise(r.err)
        ELSE FactoryCall(node.name, r.b, IF hasInvokeArg THEN r.a ELSE input)

\* ------------------------------------------------------------------ state
VARIABLES
    doc,            \* the plan document handed to the engine
    atom_plan,      \* self.atom_plan: the validated plan of the engine
    perm,           \* how atom_plan rearranges doc
    engine,         \* "Calculator" or "CalculatorRunnable": who runs atom_plan
    pc,             \* "idle", "loop" (execute_plan), "pipe" (Sequence._call),
                    \* "returned", "raised"
    nodes,          \* execute_plan's nodes: id -> the deferred node of a tool atom
    sorted_atoms,   \* the resolved order
    pipeline,       \* CalculatorRunnable's units, the tool atoms in resolved order
    idx,            \* position of the loop in sorted_atoms or pipeline
    results,        \* the results context of the running execution
    output,         \* Sequence._call's running output
    outcome,        \* what the finished call gave its caller
    run,            \* executions started so far
    prev,           \* the previous execution: its perm, engine and outcome
    raw,            \* a raw (parsed JSON) document handed to a validator
    verdict,        \* what the validation of raw gave
    instance,       \* the attributes of a CalculatorRunnable shared by a batch
    heap,           \* the config dicts of a batch, by reference
    tasks,          \* the invocations a batch dispatched, one per input
    lib,            \* which copy of the Runnable classes the units are of
    abc,            \* three units A, B, C
    grouping,       \* which composition of them is invoked
    left,           \* what (A.pipe(B)).pipe(C) gave
    right,          \* what A.pipe(B.pipe(C)) gave
    config_arg,     \* the config argument of batch
    cfg,            \* the config dict the invocations of a batch share
    jobs,           \* the invocations of a batch over a composition
    done,           \* the invocations that finished, in the order they did
    failed,         \* the first invocation that raised, 0 when none has
    gathered,       \* what batch gave its caller
    streamed,       \* what stream yielded, per input
    stage,          \* "new", "composed", "streamed", "dispatched", "gathered"
    max_chat_length, \* ChatHistory.max_chat_length
    chat_messages,  \* ChatHistory.messages
    message_queue,  \* the deque of process_messages
    cpc,            \* where the chat is: "idle", "loop", "done", "raised"
    cerr,           \* the exception process_messages raised
    made,           \* how many messages were made so far
    arrived,        \* every message add_message appended, in order
    listed,         \* the messages handed to the last call of process_messages
    inferences,     \* the calls of run_prompt: for which message, what came back
    subject,        \* a runnable to make and to invoke: class, copy, arguments
    obj,            \* the attributes the constructor left in it
    reply,          \* what invoke gave
    step            \* "new", "made", "called"

\* --------------------------------------------------- dependency resolver
\* atoms = {atom["id"]: atom for atom in atom_plan["atoms"]}: a later atom with
\* the same id replaces the earlier one, the key keeps its first position.
PlanIds(plan) == {plan[i].id : i \in 1..Len(plan)}
AtomOf(plan, id) ==
    plan[CHOOSE i \in 1..Len(plan) :
            /\ plan[i].id = id
            /\ \A j \in 1..Len(plan) : plan[j].id = id => j <= i]

RECURSIVE DictKeysFrom(_, _, _)
DictKeysFrom(plan, i, keys) ==
    IF i > Len(plan) THEN keys
    ELSE DictKeysFrom(plan, i + 1,
            IF \E k \in 1..Len(keys) : keys[k] = plan[i].id
            THEN keys ELSE Append(keys, plan[i].id))
DictKeys(plan) == DictKeysFrom(plan, 1, <<>>)

\* visit(atom_id) at recursion depth `depth`, on the state st of the sort
\* (visited, sorted, and the exception raised so far, "" when none).
RECURSIVE Visit(_, _, _, _)
RECURSIVE VisitDeps(_, _, _, _, _)
VisitPostOrderLost(plan, id, st, depth) ==
    IF st.err # "" THEN st
    ELSE IF depth > RecursionLimit THEN [st EXCEPT !.err = "RecursionError"]
    ELSE IF id \in st.visited THEN st
    ELSE IF id \notin PlanIds(plan) THEN [st EXCEPT !.err = "KeyError"]
    ELSE LET marked == [st EXCEPT !.visited = @ \cup {id},
                                  !.sorted = Append(@, AtomOf(plan, id))]
         IN  VisitDeps(plan, AtomOf(plan, id).dependsOn, 1, marked, depth)
Visit(plan, id, st, depth) ==
    IF st.err # "" THEN st
    ELSE IF depth > RecursionLimit THEN [st EXCEPT !.err = "RecursionError"]
    ELSE IF id \in st.visited THEN st
    ELSE IF id \notin PlanIds(plan) THEN [st EXCEPT !.err = "KeyError"]
    ELSE LET after == VisitDeps(plan, AtomOf(plan, id).dependsOn, 1, st, depth)
         IN  IF after.err # "" THEN after
             ELSE [after EXCEPT !.visited = @ \cup {id},
                                !.sorted = Append(@, AtomOf(plan, id))]
VisitDepsSkipped(plan, deps, k, st, depth) == st
VisitDeps(plan, deps, k, st, depth) ==
    IF k > Len(deps) \/ st.err # "" THEN st
    ELSE VisitDeps(plan, deps, k + 1, Visit(plan, deps[k], st, depth + 1), depth)

\* _topological_sort: visit every key of the atoms dict in order.
RECURSIVE VisitAll(_, _, _, _)
VisitAll(plan, keys, k, st) ==
    IF k > Len(keys) \/ st.err # "" THEN st
    ELSE VisitAll(plan, keys, k + 1, Visit(plan, keys[k], st, 1))
TopologicalSortVisitedKept(plan) ==
    IF run > 0 THEN [visited |-> PlanIds(plan), sorted |-> <<>>, err |-> ""]
    ELSE VisitAll(plan, DictKeys(plan), 1, [visited |-> {}, sorted |-> <<>>, err |-> ""])
TopologicalSort(plan) ==
    VisitAll(plan, DictKeys(plan), 1, [visited |-> {}, sorted |-> <<>>, err |-> ""])

\* ------------------------------------------------------- plan documents
\* dependsOn lists: up to two distinct ids of S.
DepLists(S) ==
    {<<>>} \cup {<<x>> : x \in S} \cup {d \in S \X S : d[1] # d[2]}
ShortDepLists(S) == {<<>>} \cup {<<x>> : x \in S}

\* An id that names no atom of any plan: plans use the ids 1..(MaxTools + 1).
UnknownId == MaxTools + 2

\* Dependency-graph documents.  The atom at position i has id i; a tool atom
\* computes with the literals i and i + 1 unless an input is a back-reference:
\* input a is a literal, the first listed dependency (an unknown id when none
\* is listed) or the smallest id of the plan it does not list; input b is the
\* second listed dependency when there is one.  An atom before the last may be of kind final.
Unlisted(deps, n) ==
    LET free == {x \in 1..(n + 1) : \A k \in 1..Len(deps) : deps[k] # x}
    IN  IF free = {} THEN {} ELSE {CHOOSE x \in free : \A y \in free : x <= y}
GraphName(i) == IF i % 2 = 1 THEN "add" ELSE "subtract"
GraphInputsA(i, deps, n) ==
    {Lit(i)}
        \cup (IF deps = <<>> THEN {Ref(UnknownId)} ELSE {Ref(deps[1])})
        \cup {Ref(x) : x \in Unlisted(deps, n)}
GraphInputB(i, deps) == IF Len(deps) > 1 THEN Ref(deps[2]) ELSE Lit(i + 1)
GraphAtoms(i, n) ==
    UNION {{ToolAtom(i, GraphName(i), a, GraphInputB(i, deps), deps) :
                a \in GraphInputsA(i, deps, n)} :
            deps \in DepLists(1..(n + 1)) \cup {<<UnknownId>>}}
    \cup {FinalAtom(i, deps) : deps \in ShortDepLists(1..n)}
LastAtoms(n) ==
    {FinalAtom(n + 1, deps) : deps \in DepLists(1..n) \cup {<<n + 1>>}}

RECURSIVE GraphPrefixes(_, _)
GraphPrefixes(i, n) ==
    IF i = 0 THEN {<<>>}
    ELSE {Append(pre, atom) : pre \in GraphPrefixes(i - 1, n), atom \in GraphAtoms(i, n)}
\* Every such document with fewer than MaxTools atoms before the last.
GraphPlans ==
    UNION {{Append(pre, last) : pre \in GraphPrefixes(n, n), last \in LastAtoms(n)} :
            n \in 0..(MaxTools - 1)}

\* Documents of MaxTools atoms before the last, in a ring: the atom at position
\* i is a sound tool atom (a leaf, or one that reads its neighbours Before and
\* After it and lists them in dependsOn), or, for at most one position of the
\* document, a defective one: a back-reference it does not list, a
\* dependency on itself, on an unknown id or on the final atom, or kind final.
Before(i, n) == IF i > 1 THEN i - 1 ELSE n
After(i, n) == IF i < n THEN i + 1 ELSE 1
SoundAtoms(i, n) ==
    {ToolAtom(i, GraphName(i), Lit(i), Lit(i + 1), <<>>),
     ToolAtom(i, GraphName(i), Ref(Before(i, n)), Lit(i + 1), <<Before(i, n)>>),
     ToolAtom(i, GraphName(i), Lit(i), Ref(After(i, n)), <<After(i, n)>>),
     ToolAtom(i, GraphName(i), Lit(i), Lit(i + 1), <<Before(i, n)>>)}
    \cup (IF Before(i, n) = After(i, n) THEN {}
          ELSE {ToolAtom(i, GraphName(i), Ref(Before(i, n)), Ref(After(i, n)),
                         <<Before(i, n), After(i, n)>>)})
DefectiveAtoms(i, n) ==
    {ToolAtom(i, GraphName(i), Ref(Before(i, n)), Lit(i + 1), <<>>),
     ToolAtom(i, GraphName(i), Lit(i), Lit(i + 1), <<i>>),
     ToolAtom(i, GraphName(i), Ref(UnknownId), Lit(i + 1), <<>>),
     ToolAtom(i, GraphName(i), Lit(i), Lit(i + 1), <<UnknownId>>),
     ToolAtom(i, GraphName(i), Lit(i), Lit(i + 1), <<n + 1>>),
     FinalAtom(i, <<>>),
     FinalAtom(i, <<Before(i, n)>>)}
ClosingAtoms(n) ==
    {FinalAtom(n + 1, deps) :
        deps \in {<<>>, <<1, n>>, <<n + 1>>} \cup {<<x>> : x \in 1..n}}

RECURSIVE SoundPrefixes(_, _)
SoundPrefixes(i, n) ==
    IF i = 0 THEN {<<>>}
    ELSE {Append(pre, atom) : pre \in SoundPrefixes(i - 1, n), atom \in SoundAtoms(i, n)}
RECURSIVE OneDefectPrefixes(_, _)
OneDefectPrefixes(i, n) ==
    IF i = 0 THEN {}
    ELSE {Append(pre, atom) : pre \in OneDefectPrefixes(i - 1, n), atom \in SoundAtoms(i, n)}
         \cup {Append(pre, atom) : pre \in SoundPrefixes(i - 1, n),
                                   atom \in DefectiveAtoms(i, n)}
RingPlans ==
    {Append(pre, last) :
        pre \in SoundPrefixes(MaxTools, MaxTools) \cup OneDefectPrefixes(MaxTools, MaxTools),
        last \in ClosingAtoms(MaxTools)}

\* Arithmetic documents: atom 1 on two literals, atom 2 on literals or on the
\* result of atom 1 (listed in dependsOn), every operation, and either atom
\* as the one the terminal atom depends on.
Lits == {Lit(x) : x \in 0..MaxLit}
DepsOfInputs(a, b) == IF a.ref \/ b.ref THEN <<1>> ELSE <<>>
ArithPlans ==
    {<<ToolAtom(1, n1, a1, b1, <<>>),
       ToolAtom(2, n2, a2, b2, DepsOfInputs(a2, b2)),
       FinalAtom(3, <<f>>)>> :
        n1 \in Ops, a1 \in Lits, b1 \in Lits,
        n2 \in Ops, a2 \in Lits \cup {Ref(1)}, b2 \in Lits \cup {Ref(1)},
        f \in {1, 2}}

\* Documents in which two atoms share an id.
DuplicateIdPlans ==
    {<<ToolAtom(1, "add", Lit(1), Lit(2), <<>>),
       ToolAtom(1, n2, Lit(2), Lit(1), deps),
       FinalAtom(3, <<1>>)>> : n2 \in Ops, deps \in {<<>>, <<3>>}}

\* Documents with a tool atom whose name has no factory.
UnknownName == "power"
UnknownNamePlans ==
    {d \in {<<ToolAtom(1, n1, Lit(1), Lit(2), <<>>),
               ToolAtom(2, n2, a2, Lit(1), DepsOfInputs(a2, Lit(1))),
               FinalAtom(3, <<f>>)>> :
                n1 \in {"add", UnknownName}, n2 \in {"add", UnknownName},
                a2 \in {Lit(2), Ref(1)}, f \in {1, 2}} :
        UnknownName \in {d[1].name, d[2].name}}

Documents ==
    GraphPlans \cup RingPlans \cup ArithPlans \cup DuplicateIdPlans \cup UnknownNamePlans

\* The document with the atoms before the last one rearranged by p.
Perms(n) == {f \in [1..n -> 1..n] : \A i, j \in 1..n : f[i] = f[j] => i = j}
Identity(n) == [i \in 1..n |-> i]
Permute(d, p) ==
    [i \in 1..Len(d) |-> IF i < Len(d) THEN d[p[i]] ELSE d[i]]

\* ------------------------------------------------------- state records
\* The state of an engine, and the state outside the engines: a raw document
\* under validation.
enginevars == <<doc, atom_plan, perm, engine, pc, nodes, sorted_atoms, pipeline, idx,
                results, output, outcome, run, prev>>
validvars == <<raw, verdict>>
batchvars == <<instance, heap, tasks>>
pipevars == <<lib, abc, grouping, left, right, config_arg, cfg, jobs, done, failed, gathered,
             streamed, stage>>
chatvars == <<max_chat_length, chat_messages, message_queue, cpc, cerr, made, arrived, listed,
             inferences>>
unitvars == <<subject, obj, reply, step>>
libvars == <<validvars, batchvars, pipevars, chatvars, unitvars>>
vars == <<enginevars, libvars>>

NoOutcome == [kind |-> "none", val |-> Zero, err |-> "", site |-> ""]
Returned(x) == [kind |-> "returned", val |-> x, err |-> "", site |-> ""]
Raised(e, site) == [kind |-> "raised", val |-> Zero, err |-> e, site |-> site]
NoPrev == [engine |-> "", perm |-> <<>>, outcome |-> NoOutcome]

\* Nothing is under validation.
NoRaw == [type |-> "dict", hasAtoms |-> TRUE, atomsType |-> "list", atoms |-> <<>>]
NoVerdict == [kind |-> "none", err |-> "", cause |-> "", by |-> ""]
\* No batch is running.
NoInstance == [atom_plan |-> <<>>, sorted_atoms |-> <<>>]
BatchIdle ==
    /\ instance = NoInstance
    /\ heap = <<>>
    /\ tasks = <<>>
\* Nothing is composed.
NoUnits == <<>>
NoGiven == [none |-> TRUE, dict |-> <<>>]
NoGathered == [kind |-> "none", vals |-> <<>>, err |-> ""]
PipeIdle ==
    /\ lib = "" /\ abc = NoUnits /\ grouping = ""
    /\ left = NoUnits /\ right = NoUnits
    /\ config_arg = NoGiven /\ cfg = <<>>
    /\ jobs = <<>> /\ done = <<>> /\ failed = 0
    /\ gathered = NoGathered
    /\ streamed = <<>>
    /\ stage = ""
\* No chat exists.
ChatIdle ==
    /\ max_chat_length = 0 /\ chat_messages = <<>> /\ message_queue = <<>>
    /\ cpc = "" /\ cerr = "" /\ made = 0
    /\ arrived = <<>> /\ listed = <<>> /\ inferences = <<>>
\* No runnable is under test.
UnitIdle == subject = <<>> /\ obj = <<>> /\ reply = NoOutcome /\ step = ""
LibIdle ==
    /\ raw = NoRaw
    /\ verdict = NoVerdict
    /\ BatchIdle
    /\ PipeIdle
    /\ ChatIdle
    /\ UnitIdle

Init ==
    /\ doc \in Documents
    /\ atom_plan = doc
    /\ perm = Identity(Len(doc) - 1)
    /\ engine = "Calculator"
    /\ pc = "idle"
    /\ nodes = <<>>
    /\ sorted_atoms = <<>>
    /\ pipeline = <<>>
    /\ idx = 0
    /\ results = EmptyResults
    /\ output = Zero
    /\ outcome = NoOutcome
    /\ run = 0
    /\ prev = NoPrev
    /\ LibIdle

\* --------------------------------------------------------------- Calculator
\* build_execution_plan: for each non-final atom in document order, the
\* factory of its name (ValueError for a name without one), then the
\* construction of its DeferredRunnable, then the node stored under the atom's
\* id (a later atom with the same id replaces the earlier one).  The first
\* exception ends the call.
RECURSIVE BuildNodesFrom(_, _, _)
BuildNodesFrom(plan, i, built) ==
    IF i > Len(plan) THEN [ok |-> TRUE, nodes |-> built, err |-> ""]
    ELSE IF plan[i].kind = "final" THEN BuildNodesFrom(plan, i + 1, built)
    ELSE IF ~KnownName(plan[i].name)
    THEN [ok |-> FALSE, nodes |-> <<>>, err |-> "ValueError"]
    ELSE IF DeferredInit(CalculatorKeywords) # ""
    THEN [ok |-> FALSE, nodes |-> <<>>, err |-> DeferredInit(CalculatorKeywords)]
    ELSE BuildNodesFrom(plan, i + 1, Put(built, plan[i].id, plan[i]))
BuildExecutionPlan(plan) == BuildNodesFrom(plan, 1, <<>>)

Idle == pc \in {"idle", "returned", "raised"}
Remember == IF run = 0 THEN NoPrev
            ELSE [engine |-> engine, perm |-> perm, outcome |-> outcome]

\* results: dict = {} at the start of execute_plan, and the {} handed to
\* pipeline.invoke.
FreshResults(old) == EmptyResults

\* execute_plan up to its loop: first of a Calculator of the document, then
\* of a Calculator of the document rearranged by p, then of that Calculator
\* again.
ExecutePlanStart(p) ==
    /\ Idle
    /\ run < MaxRuns
    /\ run = 0 => p = Identity(Len(doc) - 1)
    /\ run > 0 => engine = "Calculator"
    /\ run > 1 => p = perm
    /\ LET plan == Permute(doc, p)
           built == BuildExecutionPlan(plan)
           order == TopologicalSort(plan)
       IN  /\ atom_plan' = plan
           /\ perm' = p
           /\ engine' = "Calculator"
           /\ run' = run + 1
           /\ prev' = Remember
           /\ results' = FreshResults(results)
           /\ output' = Zero
           /\ pipeline' = <<>>
           /\ idx' = 1
           /\ IF ~built.ok
              THEN /\ pc' = "raised"
                   /\ outcome' = Raised(built.err, "build")
                   /\ nodes' = <<>>
                   /\ sorted_atoms' = <<>>
              ELSE IF order.err # ""
              THEN /\ pc' = "raised"
                   /\ outcome' = Raised(order.err, "sort")
                   /\ nodes' = built.nodes
                   /\ sorted_atoms' = <<>>
              ELSE /\ pc' = "loop"
                   /\ outcome' = NoOutcome
                   /\ nodes' = built.nodes
                   /\ sorted_atoms' = order.sorted
    /\ UNCHANGED <<doc, libvars>>

\* return results[atom["dependsOn"][0]] at a final atom.
FinalReturn(atom, res) ==
    IF atom.dependsOn = <<>> THEN Raised("IndexError", "return")
    ELSE IF ~Stored(res, atom.dependsOn[1]) THEN Raised("KeyError", "return")
    ELSE Returned(res[atom.dependsOn[1]])

\* One iteration of execute_plan's loop over sorted_atoms: return at a final
\* atom; otherwise resolve the node's input a, invoke its deferred runnable
\* with it and the results as config, and store the value under the atom's id.
ExecStep ==
    /\ pc = "loop"
    /\ IF idx > Len(sorted_atoms)
       THEN /\ pc' = "raised"
            /\ outcome' = Raised("RuntimeError", "nofinal")
            /\ UNCHANGED <<results, idx>>
       ELSE LET atom == sorted_atoms[idx] IN
            IF atom.kind = "final"
            THEN /\ outcome' = FinalReturn(atom, results)
                 /\ pc' = outcome'.kind
                 /\ UNCHANGED <<results, idx>>
            ELSE LET node == nodes[atom.id]
                     got == ResolveInputs(node, results)
                     res == DeferredCall(node, FALSE, got.a, results)
                 IN  IF ~got.ok
                     THEN /\ pc' = "raised"
                          /\ outcome' = Raised(got.err, "resolve")
                          /\ UNCHANGED <<results, idx>>
                     ELSE IF ~res.ok
                     THEN /\ pc' = "raised"
                          /\ outcome' = Raised(res.err, "invoke")
                          /\ UNCHANGED <<results, idx>>
                     ELSE /\ results' = Put(results, atom.id, res.val)
                          /\ idx' = idx + 1
                          /\ UNCHANGED <<pc, outcome>>
    /\ UNCHANGED <<doc, atom_plan, perm, engine, nodes, sorted_atoms, pipeline,
                   output, run, prev, libvars>>

\* ------------------------------------------------------- CalculatorRunnable
\* _build_execution_plan: for each non-final atom of the resolved order, the
\* factory of its name (ValueError for a name without one) and the
\* construction of its DeferredRunnable, piped into one sequence.
RECURSIVE BuildUnitsFrom(_, _, _)
BuildUnitsFrom(order, i, units) ==
    IF i > Len(order) THEN [ok |-> TRUE, units |-> units, err |-> ""]
    ELSE IF order[i].kind = "final" THEN BuildUnitsFrom(order, i + 1, units)
    ELSE IF ~KnownName(order[i].name)
    THEN [ok |-> FALSE, units |-> <<>>, err |-> "ValueError"]
    ELSE IF DeferredInit(RunnableKeywords) # ""
    THEN [ok |-> FALSE, units |-> <<>>, err |-> DeferredInit(RunnableKeywords)]
    ELSE BuildUnitsFrom(order, i + 1, Append(units, order[i]))
BuildPipeline(order) == BuildUnitsFrom(order, 1, <<>>)

\* CalculatorRunnable.invoke, up to pipeline.invoke(1, {}): first of the
\* document, then of the document rearranged by p, then of that one again.
\* Without a non-final atom the pipeline is the empty list, which has no invoke.
InvokeStart(p) ==
    /\ Idle
    /\ run < MaxRuns
    /\ run = 0 => p = Identity(Len(doc) - 1)
    /\ run > 0 => engine = "CalculatorRunnable"
    /\ run > 1 => p = perm
    /\ LET plan == Permute(doc, p)
           order == TopologicalSort(plan)
           built == BuildPipeline(order.sorted)
       IN  /\ atom_plan' = plan
           /\ sorted_atoms' = IF order.err = "" THEN order.sorted ELSE <<>>
           /\ IF order.err # ""
              THEN /\ pc' = "raised"
                   /\ outcome' = Raised(order.err, "sort")
                   /\ pipeline' = <<>>
              ELSE IF ~built.ok
              THEN /\ pc' = "raised"
                   /\ outcome' = Raised(built.err, "build")
                   /\ pipeline' = <<>>
              ELSE IF built.units = <<>>
              THEN /\ pc' = "raised"
                   /\ outcome' = Raised("AttributeError", "invoke")
                   /\ pipeline' = <<>>
              ELSE /\ pc' = "pipe"
                   /\ outcome' = NoOutcome
                   /\ pipeline' = built.units
    /\ perm' = p
    /\ engine' = "CalculatorRunnable"
    /\ run' = run + 1
    /\ prev' = Remember
    /\ results' = FreshResults(results)
    /\ output' = Num(1)
    /\ idx' = 1
    /\ nodes' = <<>>
    /\ UNCHANGED <<doc, libvars>>

\* The config handed down the sequence carries the results: the value of the
\* unit with signature id is kept in it under that id.
KeepInConfig(config, id, x) == Put(config, id, x)

\* Sequence._call's loop, one unit per step: output = runnable.invoke(output,
\* config); the last output is what the sequence returns.
SequenceOutput(outputs, last) == last
PipeStepNotAwaited ==
    /\ pc = "pipe"
    /\ LET unit == pipeline[idx]
           res == DeferredCall(unit, TRUE, output, results)
       IN  IF ~res.ok
           THEN /\ pc' = "raised"
                /\ outcome' = Raised(res.err, IF res.err = "KeyError" THEN "resolve" ELSE "invoke")
                /\ UNCHANGED <<results, output, idx>>
           ELSE /\ results' = IF idx < Len(pipeline) THEN results
                              ELSE KeepInConfig(results, unit.id, res.val)
                /\ output' = res.val
                /\ idx' = idx + 1
                /\ IF idx = Len(pipeline)
                   THEN /\ pc' = "returned"
                        /\ outcome' = Returned(SequenceOutput(results', res.val))
                   ELSE UNCHANGED <<pc, outcome>>
    /\ UNCHANGED <<doc, atom_plan, perm, engine, nodes, sorted_atoms, pipeline, run, prev,
                   libvars>>
PipeStep ==
    /\ pc = "pipe"
    /\ LET unit == pipeline[idx]
           res == DeferredCall(unit, TRUE, output, results)
       IN  IF ~res.ok
           THEN /\ pc' = "raised"
                /\ outcome' = Raised(res.err, IF res.err = "KeyError" THEN "resolve" ELSE "invoke")
                /\ UNCHANGED <<results, output, idx>>
           ELSE /\ results' = KeepInConfig(results, unit.id, res.val)
                /\ output' = res.val
                /\ idx' = idx + 1
                /\ IF idx = Len(pipeline)
                   THEN /\ pc' = "returned"
                        /\ outcome' = Returned(SequenceOutput(results', res.val))
                   ELSE UNCHANGED <<pc, outcome>>
    /\ UNCHANGED <<doc, atom_plan, perm, engine, nodes, sorted_atoms, pipeline, run, prev,
                   libvars>>

\* ------------------------------------------------- build_and_run_pipeline
\* _resolve_inputs: a back-reference becomes 0, a literal stays.
LinearResolve(value) == IF value.ref THEN Zero ELSE Num(value.v)

\* A runnable of the linear pipeline invoked with the string of a
\* back-reference: flatten_numbers finds no number in it, so addition gives
\* its value, subtraction 0 minus its value, multiplication its value, and
\* division fails on str / number.
StringCall(name, value) ==
    CASE name = "add" -> Value(value)
      [] name = "subtract" -> Value(RSub(Zero, value))
      [] name = "multiply" -> Value(value)
      [] name = "divide" -> Raise("TypeError")

\* pipeline.invoke(input) from unit i on: each runnable is invoked with the
\* output of the one before it, the first with the first atom's input a as
\* it stands in the document.
RECURSIVE LinearInvokeFrom(_, _, _)
LinearInvokeFrom(units, i, out) ==
    IF i > Len(units) THEN out
    ELSE IF ~out.ok THEN out
    ELSE LinearInvokeFrom(units, i + 1, FactoryCall(units[i].name, units[i].value, out.val))
LinearInvoke(units, first) ==
    LinearInvokeFrom(units, 2,
        IF first.ref THEN StringCall(units[1].name, units[1].value)
        ELSE FactoryCall(units[1].name, units[1].value, Num(first.v)))

\* build_and_run_pipeline's loop over the atoms in document order: at a final
\* atom the pipeline built so far is invoked with atoms[0]["input"]["a"] (None
\* has no invoke when nothing was built); any other atom adds the runnable of
\* its name, made with its resolved b, to the pipeline (ValueError for a name
\* without one); without a final atom RuntimeError.
RECURSIVE LinearFrom(_, _, _)
LinearFrom(plan, i, units) ==
    IF i > Len(plan) THEN Raised("RuntimeError", "nofinal")
    ELSE IF plan[i].kind = "final"
    THEN IF units = <<>> THEN Raised("AttributeError", "invoke")
         ELSE LET res == LinearInvoke(units, plan[1].a)
              IN  IF res.ok THEN Returned(res.val) ELSE Raised(res.err, "invoke")
    ELSE IF ~KnownName(plan[i].name) THEN Raised("ValueError", "build")
    ELSE LinearFrom(plan, i + 1,
            Append(units, [name |-> plan[i].name, value |-> LinearResolve(plan[i].b)]))

\* build_and_run_pipeline of a Calculator of the document, or of the
\* Calculator whose execute_plan has just finished.
BuildAndRunPipeline ==
    /\ Idle
    /\ run < MaxRuns
    /\ run > 0 => engine = "Calculator"
    /\ engine' = "Linear"
    /\ run' = run + 1
    /\ prev' = Remember
    /\ outcome' = LinearFrom(atom_plan, 1, <<>>)
    /\ pc' = outcome'.kind
    /\ results' = EmptyResults
    /\ output' = Zero
    /\ nodes' = <<>>
    /\ sorted_atoms' = <<>>
    /\ pipeline' = <<>>
    /\ idx' = 1
    /\ UNCHANGED <<doc, atom_plan, perm, libvars>>

Next ==
    \/ \E p \in Perms(Len(doc) - 1) : ExecutePlanStart(p)
    \/ ExecStep
    \/ \E p \in Perms(Len(doc) - 1) : InvokeStart(p)
    \/ PipeStep

Spec == Init /\ [][Next]_vars

\* A Calculator run by execute_plan, by build_and_run_pipeline, or by the one
\* and then the other.
LinearNext ==
    \/ \E p \in Perms(Len(doc) - 1) : ExecutePlanStart(p)
    \/ ExecStep
    \/ BuildAndRunPipeline
LinearSpec == Init /\ [][LinearNext]_vars

\* ------------------------------------------------------------ validation
\* A raw value is what json.loads gives: it is known here by its type ("dict",
\* "list", "int", "bool", "float", "str") and, for a dict, by the keys it has.
\* A raw atom: its type; when a dict, its keys, its kind, the type of its id,
\* whether dependsOn is a list and the types of its elements, the type of its
\* input and the keys of it.
MaxRawAtoms == 2
RequiredKeys == <<"id", "kind", "name", "dependsOn">>
RequiredInputKeys == <<"a", "b">>
RawAtom(keys, kind, id, depsList, deps, input, inputKeys) ==
    [type |-> "dict", keys |-> keys, kind |-> kind, id |-> id, depsList |-> depsList,
     deps |-> deps, input |-> input, inputKeys |-> inputKeys]
AllKeys == {"id", "kind", "name", "dependsOn", "input"}
RawTool == RawAtom(AllKeys, "tool", "int", TRUE, <<"int">>, "dict", {"a", "b"})
RawFinal == RawAtom(AllKeys \ {"input"}, "final", "int", TRUE, <<"int">>, "dict", {})
\* The atoms offered at a position: the two above, and each with one thing
\* changed.
RawAtoms ==
    {RawTool, RawFinal, [RawTool EXCEPT !.type = "list"], [RawTool EXCEPT !.type = "int"]}
    \cup {[base EXCEPT !.keys = @ \ {k}] :
            base \in {RawTool, RawFinal}, k \in {"id", "kind", "name", "dependsOn"}}
    \cup {[base EXCEPT !.kind = "other"] : base \in {RawTool, RawFinal}}
    \cup {[base EXCEPT !.id = t] : base \in {RawTool, RawFinal}, t \in {"str", "float", "bool"}}
    \cup {[RawFinal EXCEPT !.depsList = FALSE, !.deps = <<>>]}
    \cup {[base EXCEPT !.deps = d] :
            base \in {RawTool, RawFinal},
            d \in {<<>>, <<"int", "str">>, <<"bool">>, <<"float">>}}
    \cup {[RawTool EXCEPT !.keys = @ \ {"input"}], [RawTool EXCEPT !.input = "list"],
          [RawFinal EXCEPT !.keys = AllKeys, !.input = "list"]}
    \cup {[RawTool EXCEPT !.inputKeys = ks] : ks \in {{}, {"a"}, {"b"}}}
RECURSIVE RawLists(_)
RawLists(n) ==
    IF n = 0 THEN {<<>>}
    ELSE RawLists(n - 1)
         \cup {Append(l, atom) : l \in {x \in RawLists(n - 1) : Len(x) = n - 1},
                                 atom \in RawAtoms}
RawDocuments ==
    {[type |-> "dict", hasAtoms |-> TRUE, atomsType |-> "list", atoms |-> l] :
        l \in RawLists(MaxRawAtoms)}
    \cup {[type |-> "list", hasAtoms |-> FALSE, atomsType |-> "list", atoms |-> <<>>],
          [type |-> "dict", hasAtoms |-> FALSE, atomsType |-> "list", atoms |-> <<>>],
          [type |-> "dict", hasAtoms |-> TRUE, atomsType |-> "dict", atoms |-> <<>>]}

\* isinstance(x, int) on a value of JSON type t: bool is a subclass of int.
IsInstanceInt(t) == t \in {"int", "bool"}
\* The first of the keys (in list order) that m lacks, 0 when it has all.
FirstMissing(keys, has) ==
    IF \E k \in 1..Len(keys) : keys[k] \notin has
    THEN CHOOSE k \in 1..Len(keys) :
            keys[k] \notin has /\ \A j \in 1..(k - 1) : keys[j] \in has
    ELSE 0

\* _validate_atom: the exception it raises, "" when it returns the atom.
ValidateAtom(atom) ==
    IF atom.type # "dict" THEN "TypeError"
    ELSE IF FirstMissing(RequiredKeys, atom.keys) # 0 THEN "KeyError"
    ELSE IF atom.kind \notin {"tool", "final"} THEN "ValueError"
    ELSE IF ~IsInstanceInt(atom.id) THEN "TypeError"
    ELSE IF ~atom.depsList \/ \E k \in 1..Len(atom.deps) : ~IsInstanceInt(atom.deps[k])
    THEN "TypeError"
    ELSE IF atom.kind # "tool" THEN ""
    ELSE IF "input" \notin atom.keys THEN "KeyError"
    ELSE IF atom.input # "dict" THEN "TypeError"
    ELSE IF FirstMissing(RequiredInputKeys, atom.inputKeys) # 0 THEN "KeyError"
    ELSE ""

\* _validate_atom_plan: the exception it raises, "" when it returns the plan.
\* The atoms are validated in list order; validated_atoms[-1] of an empty list
\* raises IndexError.
FirstInvalid(atoms) ==
    IF \E k \in 1..Len(atoms) : ValidateAtom(atoms[k]) # ""
    THEN CHOOSE k \in 1..Len(atoms) :
            ValidateAtom(atoms[k]) # "" /\ \A j \in 1..(k - 1) : ValidateAtom(atoms[j]) = ""
    ELSE 0
ValidateAtomPlan(data) ==
    IF data.type # "dict" THEN "TypeError"
    ELSE IF ~data.hasAtoms THEN "KeyError"
    ELSE IF data.atomsType # "list" THEN "TypeError"
    ELSE IF FirstInvalid(data.atoms) # 0 THEN ValidateAtom(data.atoms[FirstInvalid(data.atoms)])
    ELSE IF data.atoms = <<>> THEN "IndexError"
    ELSE IF data.atoms[Len(data.atoms)].kind # "final" THEN "RuntimeError"
    ELSE ""

\* try: ... _validate_atom_plan(...) except Exception as e: raise
\* RuntimeError(...): what the caller of the validation gets.
Validated(data, by) ==
    IF ValidateAtomPlan(data) = ""
    THEN [kind |-> "accepted", err |-> "", cause |-> "", by |-> by]
    ELSE [kind |-> "raised", err |-> "RuntimeError", cause |-> ValidateAtomPlan(data), by |-> by]

\* Calculator.__init__ on the document.
CalculatorInit ==
    /\ verdict = NoVerdict
    /\ verdict' = Validated(raw, "Calculator")
    /\ UNCHANGED <<raw, enginevars, batchvars, pipevars, chatvars, unitvars>>

\* The first statements of CalculatorRunnable._call on the document.
RunnableValidate ==
    /\ verdict = NoVerdict
    /\ verdict' = Validated(raw, "CalculatorRunnable")
    /\ UNCHANGED <<raw, enginevars, batchvars, pipevars, chatvars, unitvars>>

\* No engine has a plan: validation comes before anything else.
EngineIdle ==
    /\ doc = <<FinalAtom(1, <<>>)>>
    /\ atom_plan = doc
    /\ perm = Identity(0)
    /\ engine = ""
    /\ pc = "idle"
    /\ nodes = <<>>
    /\ sorted_atoms = <<>>
    /\ pipeline = <<>>
    /\ idx = 0
    /\ results = EmptyResults
    /\ output = Zero
    /\ outcome = NoOutcome
    /\ run = 0
    /\ prev = NoPrev

ValidateInit ==
    /\ EngineIdle
    /\ BatchIdle
    /\ PipeIdle
    /\ ChatIdle
    /\ UnitIdle
    /\ raw \in RawDocuments
    /\ verdict = NoVerdict
ValidateNext ==
    \/ CalculatorInit
    \/ RunnableValidate
ValidateSpec == ValidateInit /\ [][ValidateNext]_vars

\* ------------------------------------------- batch over a CalculatorRunnable
\* Runnable.batch on one CalculatorRunnable: one invocation per input, all
\* given the one config dict that batch made, each running until it awaits and
\* going on, in any order, when the others await.
BatchSize == 2
BatchPlans ==
    {<<ToolAtom(1, n1, Lit(1), Lit(1), <<>>),
       ToolAtom(2, n2, ab[1], ab[2], DepsOfInputs(ab[1], ab[2])),
       FinalAtom(3, <<2>>)>> :
        n1 \in {"add", "subtract"}, n2 \in {"multiply", "divide"},
        ab \in {<<Lit(1), Ref(1)>>, <<Ref(1), Lit(1)>>}}
    \cup {<<ToolAtom(2, "add", Ref(1), Lit(1), <<>>),
            ToolAtom(1, "add", Lit(1), Lit(1), <<>>),
            FinalAtom(3, <<1>>)>>}

\* config = {} in batch: the dict with reference 0.  pipeline.invoke(1, {}) in
\* the invocation of input t: a new dict, with reference t, whatever config
\* the invocation was given.
BatchConfig == 0
PipelineConfigGiven(t, given) == given
PipelineConfig(t, given) == t

NewTask(plan) ==
    [plan |-> plan, pc |-> "new", pipeline |-> <<>>, idx |-> 0, config |-> BatchConfig,
     output |-> Zero, outcome |-> NoOutcome]

\* CalculatorRunnable._call of input t up to its first await: self.atom_plan
\* is set, sorted from self.atom_plan, self.sorted_atoms is set and the
\* pipeline built from it; then pipeline.invoke(1, {}).
TaskStart(t) ==
    /\ t \in DOMAIN tasks
    /\ tasks[t].pc = "new"
    /\ LET set == [instance EXCEPT !.atom_plan = tasks[t].plan]
           order == TopologicalSort(set.atom_plan)
           self == IF order.err = "" THEN [set EXCEPT !.sorted_atoms = order.sorted]
                   ELSE set
           built == BuildPipeline(self.sorted_atoms)
           config == PipelineConfig(t, tasks[t].config)
       IN  /\ instance' = self
           /\ IF order.err # ""
              THEN /\ tasks' = [tasks EXCEPT ![t].pc = "raised",
                                             ![t].outcome = Raised(order.err, "sort")]
                   /\ UNCHANGED heap
              ELSE IF ~built.ok
              THEN /\ tasks' = [tasks EXCEPT ![t].pc = "raised",
                                             ![t].outcome = Raised(built.err, "build")]
                   /\ UNCHANGED heap
              ELSE IF built.units = <<>>
              THEN /\ tasks' = [tasks EXCEPT ![t].pc = "raised",
                                             ![t].outcome = Raised("AttributeError", "invoke")]
                   /\ UNCHANGED heap
              ELSE /\ tasks' = [tasks EXCEPT ![t].pc = "pipe",
                                             ![t].pipeline = built.units,
                                             ![t].idx = 1,
                                             ![t].config = config,
                                             ![t].output = Num(1)]
                   /\ heap' = IF config = t THEN [heap EXCEPT ![t] = EmptyResults] ELSE heap
    /\ UNCHANGED <<enginevars, validvars, pipevars, chatvars, unitvars>>

\* One unit of the sequence of input t, between two awaits.
TaskStep(t) ==
    /\ t \in DOMAIN tasks
    /\ tasks[t].pc = "pipe"
    /\ LET task == tasks[t]
           unit == task.pipeline[task.idx]
           res == DeferredCall(unit, TRUE, task.output, heap[task.config])
       IN  IF ~res.ok
           THEN /\ tasks' = [tasks EXCEPT
                        ![t].pc = "raised",
                        ![t].outcome = Raised(res.err, IF res.err = "KeyError"
                                                       THEN "resolve" ELSE "invoke")]
                /\ UNCHANGED heap
           ELSE /\ heap' = [heap EXCEPT ![task.config] = KeepInConfig(@, unit.id, res.val)]
                /\ tasks' = [tasks EXCEPT
                        ![t].output = res.val,
                        ![t].idx = task.idx + 1,
                        ![t].pc = IF task.idx = Len(task.pipeline) THEN "returned" ELSE "pipe",
                        ![t].outcome = IF task.idx = Len(task.pipeline)
                                       THEN Returned(SequenceOutput(heap', res.val))
                                       ELSE NoOutcome]
    /\ UNCHANGED <<instance, enginevars, validvars, pipevars, chatvars, unitvars>>

BatchInit ==
    /\ EngineIdle
    /\ raw = NoRaw /\ verdict = NoVerdict
    /\ PipeIdle
    /\ ChatIdle
    /\ UnitIdle
    /\ instance = NoInstance
    /\ heap = [r \in 0..BatchSize |-> EmptyResults]
    /\ tasks \in {[t \in 1..BatchSize |-> NewTask(plans[t])] :
                    plans \in [1..BatchSize -> BatchPlans]}
BatchNext ==
    \/ \E t \in 1..BatchSize : TaskStart(t)
    \/ \E t \in 1..BatchSize : TaskStep(t)
BatchSpec == BatchInit /\ [][BatchNext]_vars

\* ------------------------------------------------------ composable units
\* A unit: an arithmetic runnable made with one value, a DeferredRunnable of
\* an atom's name and inputs (with or without an invoke accessor), or a
\* RunnableSequence of units.  The units are of the classes of my_runnable.py,
\* or of those of Runnable.py and RunnableSequence.py.
NoNode == ToolAtom(0, "add", Lit(0), Lit(0), <<>>)
ClassName(op) ==
    CASE op = "add" -> "AdditionRunnable"
      [] op = "subtract" -> "SubtractionRunnable"
      [] op = "multiply" -> "MultiplicationRunnable"
      [] op = "divide" -> "DivisionRunnable"
Arithmetic(op, value) ==
    [seq |-> FALSE, name |-> ClassName(op), op |-> op, value |-> value, node |-> NoNode,
     hasInvokeArg |-> FALSE, runnables |-> <<>>]
Deferred(node, hasInvokeArg) ==
    [seq |-> FALSE, name |-> "DeferredRunnable", op |-> "", value |-> Zero, node |-> node,
     hasInvokeArg |-> hasInvokeArg, runnables |-> <<>>]
RunnableSequence(runnables) ==
    [seq |-> TRUE, name |-> "RunnableSequence", op |-> "", value |-> Zero, node |-> NoNode,
     hasInvokeArg |-> FALSE, runnables |-> runnables]

\* pipe.  In Runnable.py the name RunnableSequence is the imported module, and
\* calling it raises TypeError; in my_runnable.py it is the class.
\* RunnableSequence.pipe appends the new runnable to its own list.
Made(unit) == [ok |-> TRUE, unit |-> unit, err |-> ""]
NotMade(e) == [ok |-> FALSE, unit |-> RunnableSequence(<<>>), err |-> e]
RunnablePipe(l, self, newRunnable) ==
    IF l = "Runnable" THEN NotMade("TypeError")
    ELSE Made(RunnableSequence(<<self, newRunnable>>))
SequencePipe(self, newRunnable) ==
    Made(RunnableSequence(Append(self.runnables, newRunnable)))
Pipe(l, self, newRunnable) ==
    IF self.seq THEN SequencePipe(self, newRunnable) ELSE RunnablePipe(l, self, newRunnable)
PipeLeft(l, a, b, c) ==
    LET ab == Pipe(l, a, b) IN IF ab.ok THEN Pipe(l, ab.unit, c) ELSE ab
PipeRight(l, a, b, c) ==
    LET bc == Pipe(l, b, c) IN IF bc.ok THEN Pipe(l, a, bc.unit) ELSE bc

\* __str__: the name of a runnable; of a sequence, the strings of its
\* runnables joined by " | " (a string is the list of its parts here).
RECURSIVE Str(_)
RECURSIVE Joined(_, _)
Joined(runnables, i) ==
    IF i > Len(runnables) THEN <<>>
    ELSE (IF i > 1 THEN <<" | ">> ELSE <<>>) \o Str(runnables[i]) \o Joined(runnables, i + 1)
Str(unit) == IF unit.seq THEN Joined(unit.runnables, 1) ELSE <<unit.name>>

\* The runnables whose _call an invoke of the unit reaches, in the order it
\* reaches them: RunnableSequence._call invokes its runnables in list order.
RECURSIVE Calls(_)
RECURSIVE CallsFrom(_, _)
CallsFrom(runnables, i) ==
    IF i > Len(runnables) THEN <<>>
    ELSE Calls(runnables[i]) \o CallsFrom(runnables, i + 1)
Calls(unit) == IF unit.seq THEN CallsFrom(unit.runnables, 1) ELSE <<unit>>

\* DeferredRunnable._call, statement by statement: what each statement did,
\* up to the statement that raised.
Event(ev, val, ok) == [ev |-> ev, val |-> val, ok |-> ok]
DeferredTrace(node, hasInvokeArg, input, config) ==
    LET r == ResolveInputs(node, config)
        local_input == IF hasInvokeArg THEN r.a ELSE input
        out == FactoryCall(node.name, r.b, local_input)
    IN  IF ~r.ok THEN <<Event("get_constructor_arg", Zero, FALSE)>>
        ELSE <<Event("get_constructor_arg", r.b, TRUE), Event("factory", r.b, TRUE)>>
             \o (IF hasInvokeArg THEN <<Event("get_invoke_arg", r.a, TRUE)>> ELSE <<>>)
             \o <<Event("invoke", local_input, out.ok)>>

\* _call of a runnable that is not a sequence.
UnitCall(unit, input, config) ==
    IF unit.name = "DeferredRunnable"
    THEN DeferredCall(unit.node, unit.hasInvokeArg, input, config)
    ELSE FactoryCall(unit.op, unit.value, input)
UnitTrace(unit, input, config) ==
    IF unit.name = "DeferredRunnable"
    THEN DeferredTrace(unit.node, unit.hasInvokeArg, input, config)
    ELSE <<>>
\* No _call assigns into the config it is given.
ConfigAfterCallStored(config, call) == IF call.ok THEN Put(config, 0, call.val) ELSE config
ConfigAfterCall(config, call) == config
\* output = await runnable.invoke(output, config): what the next runnable gets.
FedFirstInput(input, out) == input
Fed(input, out) == out

\* The units offered as A, B and C, the inputs and the configs of a batch.
Units ==
    {Arithmetic("add", Num(1)), Arithmetic("multiply", Num(2)), Arithmetic("divide", Zero),
     Arithmetic("subtract", Num(1)),
     Deferred(ToolAtom(1, "subtract", Ref(1), Lit(1), <<>>), TRUE),
     Deferred(ToolAtom(2, "add", Lit(0), Ref(1), <<>>), FALSE)}
Triples == {t \in Units \X Units \X Units : t[1] # t[2] /\ t[2] # t[3] /\ t[1] # t[3]}
Inputs == [i \in 1..BatchSize |-> Num(i)]
Givens == {NoGiven, [none |-> FALSE, dict |-> Put(EmptyResults, 1, Num(3))]}

\* The composition that is invoked: one of the two pipes, or
\* RunnableSequence([A, B, C]).  The constructor of DeferredRunnable hands a
\* config to the constructor of Runnable, which neither of the two copies
\* takes, so a DeferredRunnable is put in a sequence by the constructor of the
\* sequence and has no pipe of these copies.
Chain ==
    CASE grouping = "left" -> left
      [] grouping = "right" -> right
      [] OTHER -> Made(RunnableSequence(abc))

Compose ==
    /\ stage = "new"
    /\ left' = IF grouping = "direct" THEN NoUnits ELSE PipeLeft(lib, abc[1], abc[2], abc[3])
    /\ right' = IF grouping = "direct" THEN NoUnits ELSE PipeRight(lib, abc[1], abc[2], abc[3])
    /\ stage' = "composed"
    /\ UNCHANGED <<lib, abc, grouping, config_arg, cfg, jobs, done, failed, gathered, streamed,
                   enginevars, validvars, batchvars, chatvars, unitvars>>

\* batch up to asyncio.gather: config = {} when it is None, one invoke per
\* input, all with that config.
NewJob(input) ==
    [input |-> input, pos |-> 1, output |-> input, pc |-> "run", outcome |-> NoOutcome,
     log |-> <<>>]
Batch ==
    /\ stage = "composed"
    /\ Chain.ok
    /\ cfg' = IF config_arg.none THEN EmptyResults ELSE config_arg.dict
    /\ jobs' = [i \in 1..Len(Inputs) |-> NewJob(Inputs[i])]
    /\ stage' = "dispatched"
    /\ UNCHANGED <<lib, abc, grouping, left, right, config_arg, done, failed, gathered, streamed,
                   enginevars, validvars, batchvars, chatvars, unitvars>>

\* One _call of invocation j, between two awaits of it: the runnable it
\* stands at gets the output so far and the config; RunnableSequence._call
\* returns the last output, and an exception ends the invocation.
JobStep(j) ==
    /\ stage = "dispatched"
    /\ j \in DOMAIN jobs
    /\ jobs[j].pc = "run"
    /\ LET job == jobs[j]
           calls == Calls(Chain.unit)
           unit == calls[job.pos]
           call == UnitCall(unit, job.output, cfg)
           entry == [unit |-> unit, input |-> job.output, config |-> cfg, ok |-> call.ok,
                     out |-> call.val, err |-> call.err,
                     trace |-> UnitTrace(unit, job.output, cfg)]
           last == job.pos = Len(calls)
       IN  /\ cfg' = ConfigAfterCall(cfg, call)
           /\ IF ~call.ok
              THEN /\ jobs' = [jobs EXCEPT ![j].pc = "raised",
                                           ![j].outcome = Raised(call.err, "invoke"),
                                           ![j].log = Append(@, entry)]
                   /\ failed' = IF failed = 0 THEN j ELSE failed
                   /\ done' = Append(done, j)
              ELSE /\ jobs' = [jobs EXCEPT
                            ![j].pos = job.pos + 1,
                            ![j].output = Fed(job.input, call.val),
                            ![j].log = Append(@, entry),
                            ![j].pc = IF last THEN "returned" ELSE "run",
                            ![j].outcome = IF last
                                           THEN Returned(SequenceOutput(job.log, call.val))
                                           ELSE NoOutcome]
                   /\ done' = IF last THEN Append(done, j) ELSE done
                   /\ UNCHANGED failed
    /\ UNCHANGED <<lib, abc, grouping, left, right, config_arg, gathered, streamed, stage,
                   enginevars, validvars, batchvars, chatvars, unitvars>>

\* await asyncio.gather(*tasks): the results in the order of the tasks when
\* all have returned; the exception of the first task that raised.
GatheredAsCompleted(js, order) == [k \in 1..Len(order) |-> js[order[k]].outcome.val]
Gathered(js, order) == [i \in 1..Len(js) |-> js[i].outcome.val]
Gather ==
    /\ stage = "dispatched"
    /\ \/ /\ failed # 0
          /\ gathered' = [kind |-> "raised", vals |-> <<>>, err |-> jobs[failed].outcome.err]
       \/ /\ failed = 0
          /\ \A j \in DOMAIN jobs : jobs[j].pc = "returned"
          /\ gathered' = [kind |-> "returned", vals |-> Gathered(jobs, done), err |-> ""]
    /\ stage' = "gathered"
    /\ UNCHANGED <<lib, abc, grouping, left, right, config_arg, cfg, jobs, done, failed, streamed,
                   enginevars, validvars, batchvars, chatvars, unitvars>>

\* invoke of a unit that runs alone: RunnableSequence._call from its i-th
\* runnable on, with the output so far.
RECURSIVE InvokeFrom(_, _, _, _)
InvokeFrom(calls, i, input, config) ==
    IF i > Len(calls) THEN [ok |-> TRUE, val |-> input, err |-> ""]
    ELSE LET call == UnitCall(calls[i], input, config)
         IN  IF call.ok THEN InvokeFrom(calls, i + 1, call.val, config)
             ELSE [ok |-> FALSE, val |-> Zero, err |-> call.err]
Invoke(unit, input, config) == InvokeFrom(Calls(unit), 1, input, config)
BatchConfigOf(arg) == IF arg.none THEN EmptyResults ELSE arg.dict

\* stream, run to its end for each input on its own.  Runnable.stream yields
\* await self.invoke(input, config) and ends; no class overrides stream.
\* _stream, which stream does not call, is overridden by RunnableSequence: it
\* invokes all runnables but the last and yields what the stream of the last
\* yields.
Yielded(items) == [ok |-> TRUE, items |-> items, err |-> ""]
StreamRaised(e) == [ok |-> FALSE, items |-> <<>>, err |-> e]
RunnableStreamEachOutput(unit, input, config) ==
    LET r == Invoke(unit, input, config)
    IN  IF r.ok THEN Yielded([k \in 1..Len(Calls(unit)) |->
                                 InvokeFrom(SubSeq(Calls(unit), 1, k), 1, input, config).val])
        ELSE StreamRaised(r.err)
RunnableStream(unit, input, config) ==
    LET r == Invoke(unit, input, config)
    IN  IF r.ok THEN Yielded(<<r.val>>) ELSE StreamRaised(r.err)
InnerStream(unit, input, config) ==
    IF ~unit.seq THEN RunnableStream(unit, input, config)
    ELSE LET n == Len(unit.runnables)
             head == InvokeFrom(CallsFrom(SubSeq(unit.runnables, 1, n - 1), 1), 1, input, config)
         IN  IF ~head.ok THEN StreamRaised(head.err)
             ELSE RunnableStream(unit.runnables[n], head.val, config)
Stream ==
    /\ stage = "composed"
    /\ Chain.ok
    /\ streamed' = [i \in 1..Len(Inputs) |->
                      [stream |-> RunnableStream(Chain.unit, Inputs[i], BatchConfigOf(config_arg)),
                       inner |-> InnerStream(Chain.unit, Inputs[i], BatchConfigOf(config_arg))]]
    /\ stage' = "streamed"
    /\ UNCHANGED <<lib, abc, grouping, left, right, config_arg, cfg, jobs, done, failed, gathered,
                   enginevars, validvars, batchvars, chatvars, unitvars>>

PipeInit ==
    /\ EngineIdle
    /\ raw = NoRaw /\ verdict = NoVerdict
    /\ BatchIdle
    /\ ChatIdle
    /\ UnitIdle
    /\ lib \in {"my_runnable", "Runnable"}
    /\ abc \in Triples
    /\ grouping \in {"left", "right", "direct"}
    /\ grouping # "direct" => \A k \in 1..3 : abc[k].name # "DeferredRunnable"
    /\ left = NoUnits /\ right = NoUnits
    /\ config_arg \in Givens
    /\ cfg = <<>>
    /\ jobs = <<>> /\ done = <<>> /\ failed = 0
    /\ gathered = NoGathered
    /\ streamed = <<>>
    /\ stage = "new"
PipeNext ==
    \/ Compose
    \/ Batch
    \/ \E j \in 1..BatchSize : JobStep(j)
    \/ Gather
    \/ Stream
PipeSpec == PipeInit /\ [][PipeNext]_vars

\* --------------------------------------------------------- chat history
MaxChatLength == 3
MaxMessages == 3
\* A message: its class, the number it was made as and, for the ToolMessage
\* process_messages makes, the number of the message whose answer held the plan.
Message(type, n) == [type |-> type, n |-> n, of |-> 0]
IsSystemMessage(msg) == msg.type = "system"
NotSystemMessage(msg) == msg.type # "system"

\* messages[-n:]: all of the list when n is 0, its last n elements when n is
\* positive, the list without its first -n elements when n is negative.
LastSlice(msgs, n) ==
    IF n = 0 THEN msgs
    ELSE IF n > 0 THEN SubSeq(msgs, IF Len(msgs) > n THEN Len(msgs) - n + 1 ELSE 1, Len(msgs))
    ELSE SubSeq(msgs, 1 - n, Len(msgs))

\* _reorg_chat_memory.
ReorgChatMemoryLastSystem(msgs, max) ==
    LET sys_messages_list == SelectSeq(msgs, IsSystemMessage)
    IN  IF Len(sys_messages_list) > 0
        THEN <<sys_messages_list[Len(sys_messages_list)]>>
             \o LastSlice(SelectSeq(msgs, NotSystemMessage), max - 1)
        ELSE LastSlice(SelectSeq(msgs, NotSystemMessage), max)
ReorgChatMemory(msgs, max) ==
    LET sys_messages_list == SelectSeq(msgs, IsSystemMessage)
        contains_sys_msg == Len(sys_messages_list) > 0
        n_msgs_to_keep == IF ~contains_sys_msg THEN max ELSE max - 1
        most_recent_messages == LastSlice(SelectSeq(msgs, NotSystemMessage), n_msgs_to_keep)
    IN  IF contains_sys_msg THEN <<sys_messages_list[1]>> \o most_recent_messages
        ELSE most_recent_messages

\* add_message with one message or with an iterable of messages: each is
\* appended, then the memory is reorganised.
Added(msgs, new, max) == ReorgChatMemory(msgs \o new, max)

MessageTypes == {"system", "human", "ai", "tool"}
\* The messages a caller makes: one, or a list of two, numbered as made.
NewMessages(from) ==
    {<<Message(t, from + 1)>> : t \in MessageTypes}
    \cup {<<Message(t, from + 1), Message(u, from + 2)>> : t \in MessageTypes, u \in MessageTypes}
Quiet == cpc \in {"idle", "done", "raised"}

AddMessage ==
    /\ Quiet
    /\ \E new \in NewMessages(made) :
         /\ made + Len(new) <= MaxMessages
         /\ made' = made + Len(new)
         /\ chat_messages' = Added(chat_messages, new, max_chat_length)
         /\ arrived' = arrived \o new
    /\ cpc' = "idle"
    /\ UNCHANGED <<max_chat_length, message_queue, cerr, listed, inferences,
                   enginevars, validvars, batchvars, pipevars, unitvars>>

\* ------------------------------------------------------------ chat runner
\* AIMessage.__init__: params["tool_calls"] is read whatever params is; None
\* is not subscriptable and a dict without the key raises KeyError.
AIMessageInit(params) ==
    CASE params = "None" -> "TypeError"
      [] params = "no tool_calls" -> "KeyError"
      [] OTHER -> ""

\* calc.execute_plan() run to its end, on a plan the constructor accepted.
RECURSIVE ExecuteLoop(_, _, _, _)
ExecuteLoop(order, built, i, res) ==
    IF i > Len(order) THEN Raised("RuntimeError", "nofinal")
    ELSE IF order[i].kind = "final" THEN FinalReturn(order[i], res)
    ELSE LET got == ResolveInputs(built[order[i].id], res)
             call == DeferredCall(built[order[i].id], FALSE, got.a, res)
         IN  IF ~got.ok THEN Raised(got.err, "resolve")
             ELSE IF ~call.ok THEN Raised(call.err, "invoke")
             ELSE ExecuteLoop(order, built, i + 1, Put(res, order[i].id, call.val))
ExecutePlan(plan) ==
    LET built == BuildExecutionPlan(plan)
        order == TopologicalSort(plan)
    IN  IF ~built.ok THEN Raised(built.err, "build")
        ELSE IF order.err # "" THEN Raised(order.err, "sort")
        ELSE ExecuteLoop(order.sorted, built.nodes, 1, EmptyResults)

\* What run_prompt and agent_message_parser give: no plan (None), an empty
\* one, or the text of a plan.
ChatPlans ==
    {<<FinalAtom(1, <<>>)>>,
     <<ToolAtom(1, "add", Lit(1), Lit(1), <<>>), FinalAtom(2, <<1>>)>>}
Responses == {[plan |-> "None", doc |-> <<>>], [plan |-> "", doc |-> <<>>]}
             \cup {[plan |-> "plan", doc |-> d] : d \in ChatPlans}
\* self.chat.to_prompt_format(): the history as the turns of a prompt.
ToPromptFormat(msgs) == [k \in DOMAIN msgs |-> msgs[k].type]

\* process_messages(messages) up to its loop.
ProcessMessages ==
    /\ Quiet
    /\ \E new \in NewMessages(made) \cup {<<>>} :
         /\ made + Len(new) <= MaxMessages
         /\ \A k \in DOMAIN new : new[k].type # "ai"
         /\ made' = made + Len(new)
         /\ message_queue' = new
         /\ listed' = new
         /\ cpc' = IF new = <<>> THEN "done" ELSE "loop"
    /\ cerr' = ""
    /\ UNCHANGED <<max_chat_length, chat_messages, arrived, inferences,
                   enginevars, validvars, batchvars, pipevars, unitvars>>

\* One iteration of the loop of process_messages: the message is taken from
\* the queue and added to the history; a system or tool message ends the
\* iteration; otherwise the model is run on the history, its answer made an
\* AIMessage and added, and a plan in it is executed and its result made a
\* ToolMessage that is appended to the queue and added to the history.
ProcessStep ==
    /\ cpc = "loop"
    /\ LET msg == Head(message_queue)
           rest == Tail(message_queue)
           chat1 == Added(chat_messages, <<msg>>, max_chat_length)
       IN  IF msg.type \in {"system", "tool"}
           THEN /\ chat_messages' = chat1
                /\ arrived' = Append(arrived, msg)
                /\ message_queue' = rest
                /\ cpc' = IF rest = <<>> THEN "done" ELSE "loop"
                /\ UNCHANGED <<cerr, made, inferences>>
           ELSE \E r \in Responses :
                LET prompt == ToPromptFormat(chat1)
                    ai_msg == Message("ai", made + 1)
                    chat2 == Added(chat1, <<ai_msg>>, max_chat_length)
                    result == ExecutePlan(r.doc)
                    new_msg == [Message("tool", made + 2) EXCEPT !.of = msg.n]
                IN  /\ inferences' = Append(inferences, [n |-> msg.n, prompt |-> prompt,
                                                         plan |-> r.plan, doc |-> r.doc])
                    /\ IF AIMessageInit("None") # ""
                       THEN /\ cpc' = "raised"
                            /\ cerr' = AIMessageInit("None")
                            /\ chat_messages' = chat1
                            /\ arrived' = Append(arrived, msg)
                            /\ message_queue' = rest
                            /\ UNCHANGED made
                       ELSE IF r.plan \in {"None", ""}
                       THEN /\ chat_messages' = chat2
                            /\ arrived' = arrived \o <<msg, ai_msg>>
                            /\ message_queue' = rest
                            /\ made' = made + 1
                            /\ cpc' = IF rest = <<>> THEN "done" ELSE "loop"
                            /\ UNCHANGED cerr
                       ELSE IF result.kind = "raised"
                       THEN /\ cpc' = "raised"
                            /\ cerr' = result.err
                            /\ chat_messages' = chat2
                            /\ arrived' = arrived \o <<msg, ai_msg>>
                            /\ message_queue' = rest
                            /\ made' = made + 1
                       ELSE /\ chat_messages' = Added(chat2, <<new_msg>>, max_chat_length)
                            /\ arrived' = arrived \o <<msg, ai_msg, new_msg>>
                            /\ message_queue' = Append(rest, new_msg)
                            /\ made' = made + 2
                            /\ cpc' = "loop"
                            /\ UNCHANGED cerr
    /\ UNCHANGED <<max_chat_length, listed, enginevars, validvars, batchvars, pipevars, unitvars>>

ChatInit ==
    /\ EngineIdle
    /\ raw = NoRaw /\ verdict = NoVerdict
    /\ BatchIdle
    /\ PipeIdle
    /\ UnitIdle
    /\ max_chat_length \in 1..MaxChatLength
    /\ chat_messages = <<>> /\ message_queue = <<>>
    /\ cpc = "idle" /\ cerr = "" /\ made = 0
    /\ arrived = <<>> /\ listed = <<>> /\ inferences = <<>>
ChatNext ==
    \/ AddMessage
    \/ ProcessMessages
    \/ ProcessStep
ChatSpec == ChatInit /\ [][ChatNext]_vars
\* The loop of process_messages runs on: an iteration that can be taken is taken.
ChatLiveSpec == ChatInit /\ [][ChatNext]_vars /\ WF_vars(ProcessStep)

\* ------------------------------------------------------ JsonParserRunnable
\* A Python value as far as the parser looks at it: its type, whether it is
\* falsy, and what it holds.
PyNone == [type |-> "None", falsy |-> TRUE, holds |-> ""]
PyStr(text) == [type |-> "str", falsy |-> text = "", holds |-> text]
PyDict(error) == [type |-> "dict", falsy |-> FALSE, holds |-> error]
PyEmptyDict == [type |-> "dict", falsy |-> TRUE, holds |-> ""]
PyInt(n) == [type |-> "int", falsy |-> n = 0, holds |-> ""]
PyException(e) == [type |-> e, falsy |-> FALSE, holds |-> ""]

\* json.loads on the texts of the model: a dict with the key "error", a dict
\* without it, null, or JSONDecodeError.
ErrorMessage == "Not a valid JSON."
JsonTexts == {"", "Silly text.", "{\"error\": \"Not a valid JSON.\"}", "{\"band\": 1}", "{}", "null"}
JsonLoads(text) ==
    CASE text = "{\"error\": \"Not a valid JSON.\"}" -> [ok |-> TRUE, val |-> PyDict(ErrorMessage)]
      [] text = "{\"band\": 1}" -> [ok |-> TRUE, val |-> PyDict("")]
      [] text = "{}" -> [ok |-> TRUE, val |-> PyEmptyDict]
      [] text = "null" -> [ok |-> TRUE, val |-> PyNone]
      [] OTHER -> [ok |-> FALSE, val |-> PyException("JSONDecodeError")]
\* d.get("error") of a dict of the model.
GetError(d) == IF d.holds = "" THEN PyNone ELSE PyStr(d.holds)

\* What the constructor is given and what invoke is given.
ParserOptions == {PyNone, PyDict(ErrorMessage), PyDict(""), PyEmptyDict}
                 \cup {PyStr(t) : t \in JsonTexts \ {"null"}}
ParserInputs == {PyNone, PyInt(5)} \cup {PyStr(t) : t \in JsonTexts}

\* JsonParserRunnable.__init__ of runnables/json_parser_runnable.py: the
\* attribute error, or the exception raised.
ParserInit(config) ==
    IF config.falsy THEN [ok |-> TRUE, error |-> PyNone, err |-> ""]
    ELSE IF config.type = "dict" THEN [ok |-> TRUE, error |-> GetError(config), err |-> ""]
    ELSE [ok |-> FALSE, error |-> PyNone, err |-> "AttributeError"]
\* JsonParserRunnable.__init__ of json_parser_runnable.py: the attribute
\* options (`not input` is about the builtin and is False), under the same
\* name: the error message options holds.
OldParserInit(options) ==
    IF options.type # "str" THEN [ok |-> TRUE, error |-> PyNone, err |-> ""]
    ELSE IF ~JsonLoads(options.holds).ok THEN [ok |-> FALSE, error |-> PyNone, err |-> "ValueError"]
    ELSE [ok |-> TRUE, error |-> GetError(JsonLoads(options.holds).val), err |-> ""]

\* JsonParserRunnable._call of runnables/json_parser_runnable.py.
ParserCall(error, input) ==
    IF input.falsy \/ input.type # "str" THEN Returned(error)
    ELSE IF JsonLoads(input.holds).ok THEN Returned(JsonLoads(input.holds).val)
    ELSE IF error # PyNone THEN Raised("RuntimeError", error.holds)
    ELSE Returned(JsonLoads(input.holds).val)
\* JsonParserRunnable._call of json_parser_runnable.py.
OldParserCall(error, input) ==
    IF input.type # "str" \/ input.falsy THEN Returned(error)
    ELSE IF JsonLoads(input.holds).ok THEN Returned(JsonLoads(input.holds).val)
    ELSE Returned(error)

ParserSubjects ==
    {[class |-> "JsonParserRunnable", copy |-> c, args |-> o, input |-> i] :
        c \in {"runnables", "src"}, o \in ParserOptions, i \in ParserInputs}

ParserNew ==
    /\ step = "new"
    /\ subject.class = "JsonParserRunnable"
    /\ LET made_obj == IF subject.copy = "runnables" THEN ParserInit(subject.args)
                       ELSE OldParserInit(subject.args)
       IN  /\ obj' = made_obj
           /\ step' = IF made_obj.ok THEN "made" ELSE "failed"
    /\ UNCHANGED <<subject, reply, enginevars, validvars, batchvars, pipevars, chatvars>>
ParserInvoke ==
    /\ step = "made"
    /\ subject.class = "JsonParserRunnable"
    /\ reply' = IF subject.copy = "runnables" THEN ParserCall(obj.error, subject.input)
                ELSE OldParserCall(obj.error, subject.input)
    /\ step' = "called"
    /\ UNCHANGED <<subject, obj, enginevars, validvars, batchvars, pipevars, chatvars>>

\* ------------------------------------------------------- flatten_numbers
MaxItems == 2
\* An item of a nested structure: a number, a string, or a list of items.
Number(n) == [t |-> "num", v |-> n, items |-> <<>>]
Text == [t |-> "str", v |-> 0, items |-> <<>>]
List(xs) == [t |-> "list", v |-> 0, items |-> xs]

\* A config dict with one key, and no config.
NoConfig == [key |-> "", value |-> 0]
Config(key, value) == [key |-> key, value |-> value]

\* flatten_numbers(items, config): the numbers of the items in order, those
\* of an iterable item (a str is none) being flatten_numbers of it; a result
\* without a number is the list of the filler, which is
\* config.get("empty_list_filler", 0), and 0 without a config.
RECURSIVE FlattenFrom(_, _, _)
FlattenNumbers(items, config) ==
    LET filler == IF config # NoConfig /\ config.key = "empty_list_filler"
                  THEN config.value ELSE 0
        result == FlattenFrom(items, 1, config)
    IN  IF Len(result) = 0 THEN <<filler>> ELSE result
FlattenFrom(items, i, config) ==
    IF i > Len(items) THEN <<>>
    ELSE (CASE items[i].t = "list" -> FlattenNumbers(items[i].items, config)
            [] items[i].t = "num" -> <<items[i].v>>
            [] OTHER -> <<>>)
         \o FlattenFrom(items, i + 1, config)

RECURSIVE Prod(_)
Prod(nums) == IF nums = <<>> THEN 1 ELSE Head(nums) * Prod(Tail(nums))
RECURSIVE Sum(_)
Sum(nums) == IF nums = <<>> THEN 0 ELSE Head(nums) + Sum(Tail(nums))

\* The config each class hands to flatten_numbers: MultiplicationRunnable of
\* runnables/ the key empty_list_filler, MultiplicationRunnable of
\* multiplication_runnable.py the key emptyListFiller, AdditionRunnable none.
FlattenConfig(class, copy) ==
    IF class = "AdditionRunnable" THEN NoConfig
    ELSE IF copy = "runnables" THEN Config("empty_list_filler", 1)
    ELSE Config("emptyListFiller", 1)

\* The structures the runnables are made with and invoked with.
Atoms == {Number(2), Number(3), Text}
AtomLists == UNION {[1..n -> Atoms] : n \in 0..MaxItems}
Items == Atoms \cup {List(l) : l \in AtomLists} \cup {List(<<List(l)>>) : l \in AtomLists}
ArithmeticValues == {<<x>> : x \in Items} \cup {<<x, y>> : x \in Items, y \in Atoms}
ArithmeticInputs == Atoms \cup {List(<<>>), List(<<Text>>), List(<<Number(3)>>)}
ArithmeticSubjects ==
    {[class |-> "MultiplicationRunnable", copy |-> c, args |-> a, input |-> i] :
        c \in {"runnables", "src"}, a \in ArithmeticValues, i \in ArithmeticInputs}
    \cup {[class |-> "AdditionRunnable", copy |-> "runnables", args |-> a, input |-> i] :
        a \in ArithmeticValues, i \in ArithmeticInputs}

\* __init__(*values): self.values = flatten_numbers(values, ...).
ArithmeticNew ==
    /\ step = "new"
    /\ subject.class # "JsonParserRunnable"
    /\ obj' = [ok |-> TRUE,
               values |-> FlattenNumbers(subject.args,
                                         FlattenConfig(subject.class, subject.copy))]
    /\ step' = "made"
    /\ UNCHANGED <<subject, reply, enginevars, validvars, batchvars, pipevars, chatvars>>
\* _call: prod (sum) of self.values + flatten_numbers([input], ...).
ArithmeticInvoke ==
    /\ step = "made"
    /\ subject.class # "JsonParserRunnable"
    /\ LET nums == obj.values \o FlattenNumbers(<<subject.input>>,
                                                FlattenConfig(subject.class, subject.copy))
       IN  reply' = Returned(IF subject.class = "AdditionRunnable" THEN Sum(nums)
                             ELSE Prod(nums))
    /\ step' = "called"
    /\ UNCHANGED <<subject, obj, enginevars, validvars, batchvars, pipevars, chatvars>>

UnitInit ==
    /\ EngineIdle
    /\ raw = NoRaw /\ verdict = NoVerdict
    /\ BatchIdle
    /\ PipeIdle
    /\ ChatIdle
    /\ subject \in ParserSubjects \cup ArithmeticSubjects
    /\ obj = <<>>
    /\ reply = NoOutcome
    /\ step = "new"
UnitNext ==
    \/ ParserNew
    \/ ParserInvoke
    \/ ArithmeticNew
    \/ ArithmeticInvoke
UnitSpec == UnitInit /\ [][UnitNext]_vars

\* ================================================================ claims
\* What a plan means, stated on the document alone.
AtomIds(plan) == {plan[i].id : i \in 1..Len(plan)}
UniqueIds(plan) == \A i, j \in 1..Len(plan) : plan[i].id = plan[j].id => i = j
DepsOf(plan, id) ==
    UNION {{plan[i].dependsOn[k] : k \in 1..Len(plan[i].dependsOn)} :
            i \in {j \in 1..Len(plan) : plan[j].id = id}}
DepsNameAtoms(plan) == \A id \in AtomIds(plan) : DepsOf(plan, id) \subseteq AtomIds(plan)

\* The ids reachable from the ids S along dependsOn in at most k steps.
RECURSIVE ReachableIn(_, _, _)
ReachableIn(plan, S, k) ==
    IF k = 0 THEN S
    ELSE ReachableIn(plan, S \cup UNION {DepsOf(plan, id) : id \in S}, k - 1)
DependsOnPlus(plan, id) == ReachableIn(plan, DepsOf(plan, id), Len(plan))
HasCycle(plan) == \E id \in AtomIds(plan) : id \in DependsOnPlus(plan, id)
Acyclic(plan) == ~HasCycle(plan)

IsTool(plan, id) == \E i \in 1..Len(plan) : plan[i].id = id /\ plan[i].kind = "tool"
RefsOf(atom) == {x.v : x \in {y \in {atom.a, atom.b} : y.ref}}
ListedIn(atom) == {atom.dependsOn[k] : k \in 1..Len(atom.dependsOn)}
\* Every back-reference of a tool atom is listed in its dependsOn and names a
\* tool atom.
RefsDeclared(plan) ==
    \A i \in 1..Len(plan) : plan[i].kind = "tool" =>
        \A r \in RefsOf(plan[i]) : r \in ListedIn(plan[i]) /\ IsTool(plan, r)
OneFinal(plan) == \A i \in 1..Len(plan) : plan[i].kind = "final" <=> i = Len(plan)
TerminalAtom(plan) == plan[Len(plan)]

\* The value of the expression rooted at atom id: the named operator on the
\* inputs, a back-reference standing for the value of the atom it names.
ApplyOp(name, x, y) ==
    CASE name = "add" -> RAdd(x, y)
      [] name = "subtract" -> RSub(x, y)
      [] name = "multiply" -> RMul(x, y)
      [] name = "divide" -> RDiv(x, y)
RECURSIVE Eval(_, _)
TheAtom(plan, id) == plan[CHOOSE i \in 1..Len(plan) : plan[i].id = id]
EvalInput(plan, x) == IF x.ref THEN Eval(plan, x.v) ELSE Num(x.v)
Eval(plan, id) ==
    LET atom == TheAtom(plan, id)
        x == EvalInput(plan, atom.a)
        y == EvalInput(plan, atom.b)
    IN  IF atom.name = "divide" /\ y[1] = 0 THEN <<0, 0>>   \* undefined
        ELSE IF x[2] = 0 \/ y[2] = 0 THEN <<0, 0>>
        ELSE ApplyOp(atom.name, x, y)
Defined(x) == x[2] # 0

\* A valid plan: unique ids, dependsOn naming atoms of the plan (tool atoms
\* depending on tool atoms), no cycle, back-references declared, known
\* operation names, no zero divisor, one final atom (the last) with something
\* to depend on.
ToolDepsAreTools(plan) ==
    \A i \in 1..Len(plan) : plan[i].kind = "tool" =>
        \A d \in ListedIn(plan[i]) : IsTool(plan, d)
WellFormed(plan) ==
    /\ UniqueIds(plan)
    /\ DepsNameAtoms(plan)
    /\ ToolDepsAreTools(plan)
    /\ Acyclic(plan)
    /\ RefsDeclared(plan)
    /\ OneFinal(plan)
    /\ TerminalAtom(plan).dependsOn # <<>>
    /\ \A i \in 1..Len(plan) : plan[i].kind = "tool" => plan[i].name \in Ops
ValidPlan(plan) ==
    /\ WellFormed(plan)
    /\ \A i \in 1..Len(plan) : plan[i].kind = "tool" => Defined(Eval(plan, plan[i].id))

Finished == pc \in {"returned", "raised"}

\* ---------------------------------------------------------------- C1
IsLinearization(order, plan) ==
    /\ Len(order) = Len(plan)
    /\ \A i \in 1..Len(plan) :
            Cardinality({k \in 1..Len(order) : order[k] = plan[i]}) = 1
    /\ \A k \in 1..Len(order) : \A d \in ListedIn(order[k]) :
            \E j \in 1..(k - 1) : order[j].id = d
SortablePlan(plan) == UniqueIds(plan) /\ DepsNameAtoms(plan) /\ Acyclic(plan)
\* The resolver has run on atom_plan (no earlier step of the call failed).
SortRan == run > 0 /\ outcome.site # "build"

\* C1: for a plan with unique ids, dependsOn naming atoms of the plan and no
\* cycle, the order returned by _topological_sort holds every atom of the plan
\* exactly once, and every id in an atom's dependsOn strictly before the atom.
TopologicalOrderValid ==
    (SortRan /\ SortablePlan(atom_plan)) => IsLinearization(sorted_atoms, atom_plan)

\* A sortable plan that the resolver had to reorder, with an atom that has
\* two dependencies.
TopologicalOrderWitness ==
    /\ SortRan /\ SortablePlan(atom_plan)
    /\ sorted_atoms # atom_plan
    /\ \E i \in 1..Len(atom_plan) : Len(atom_plan[i].dependsOn) = 2
    /\ IsLinearization(sorted_atoms, atom_plan)

\* ---------------------------------------------------------------- C2
\* C2: executing a plan whose dependsOn graph has a cycle ends in a
\* cyclic-dependency error (the resolver detects the cycle).
CyclicPlanRaisesCyclicDependencyError ==
    (SortRan /\ HasCycle(atom_plan)) =>
        (pc = "raised" /\ outcome.err = "CyclicDependencyError")

\* ---------------------------------------------------------------- C3
Calculating == engine = "Calculator" /\ run > 0
ToolAtomIds(plan) == {plan[i].id : i \in {j \in 1..Len(plan) : plan[j].kind = "tool"}}

\* C3: on a valid plan execute_plan never fails, every stored result is the
\* value of the named operator on the atom's inputs with each back-reference
\* replaced by the value of the atom it names (a the left operand, b the right
\* one), every tool atom has its result stored when the call returns, and the
\* returned value is the value of the expression the terminal atom points to.
StoredValuesAreExpressionValues ==
    (Calculating /\ ValidPlan(atom_plan)) =>
        /\ pc # "raised"
        /\ \A id \in DOMAIN results : results[id] = Eval(atom_plan, id)
        /\ pc = "returned" =>
            /\ DOMAIN results = ToolAtomIds(atom_plan)
            /\ outcome.val = Eval(atom_plan, TerminalAtom(atom_plan).dependsOn[1])

\* ---------------------------------------------------------------- C4
\* C4: on a valid plan execute_plan returns a value, and it is the stored
\* result of the atom named by the first entry of dependsOn of the plan's
\* final atom, the last atom of the document.
ReturnsResultOfFirstDependency ==
    (Calculating /\ ValidPlan(atom_plan) /\ Finished) =>
        /\ pc = "returned"
        /\ Stored(results, TerminalAtom(atom_plan).dependsOn[1])
        /\ outcome.val = results[TerminalAtom(atom_plan).dependsOn[1]]

\* ---------------------------------------------------------------- C5
\* C5: CalculatorRunnable.invoke on a valid plan returns the result of the
\* atom the final atom depends on, also when that atom is not the last tool
\* atom of the resolved order.
RunnableReturnsResultOfFirstDependency ==
    (engine = "CalculatorRunnable" /\ ValidPlan(atom_plan) /\ pc = "returned") =>
        outcome.val = Eval(atom_plan, TerminalAtom(atom_plan).dependsOn[1])

\* ---------------------------------------------------------------- C6
\* C6: the result of executing a valid plan does not depend on the order in
\* which its tool atoms are listed: the execution of a rearranged document
\* (final atom kept last) returns a value, the one the execution before it
\* returned.
ResultIndependentOfListing ==
    (run > 1 /\ Finished /\ ValidPlan(doc)) =>
        /\ outcome.kind = "returned"
        /\ outcome = prev.outcome

ComputedBy(id) ==
    IF engine = "Calculator" THEN nodes[id]
    ELSE pipeline[CHOOSE k \in 1..Len(pipeline) : pipeline[k].id = id]
Steps == IF engine = "Calculator" THEN sorted_atoms ELSE pipeline
AtStep == idx >= 1 /\ idx <= Len(Steps)
ZeroDivisor(atom, res) ==
    /\ atom.kind = "tool" /\ atom.name = "divide"
    /\ ResolveInputs(atom, res).ok
    /\ ResolveInputs(atom, res).b = Zero
ExecutedIds == {Steps[k].id : k \in 1..(idx - 1)}

\* C8: a divide atom whose resolved b is 0 never gets a result stored; the
\* execution that reaches it ends in a division-by-zero error carrying no
\* value; and the execution after it holds only the results it stored itself.
ZeroDivisionFails ==
    run > 0 =>
        /\ \A id \in DOMAIN results : ~ZeroDivisor(ComputedBy(id), results)
        /\ (Finished /\ AtStep /\ ZeroDivisor(Steps[idx], results)) =>
                outcome = Raised("ZeroDivisionError", "invoke")
        /\ (run > 1 /\ prev.outcome.err = "ZeroDivisionError" /\ pc # "raised") =>
                DOMAIN results = ExecutedIds

\* A second execution failing on a division by a stored result that is 0,
\* after the first failed the same way.
ZeroDivisionWitness ==
    /\ Finished /\ AtStep
    /\ ZeroDivisor(Steps[idx], results)
    /\ Steps[idx].b.ref
    /\ results # EmptyResults
    /\ run > 1 /\ prev.outcome.err = "ZeroDivisionError"
    /\ outcome = Raised("ZeroDivisionError", "invoke")

\* ---------------------------------------------------------------- C9
Unresolved(atom, res) ==
    atom.kind = "tool" /\ \E r \in RefsOf(atom) : ~Stored(res, r)
UnresolvedReferenceError == Raised("KeyError", "resolve")

\* C9: an atom with a back-reference to an id that has no stored result when
\* the atom is executed makes the execution fail with the error of the
\* missing reference; no result is ever computed from a substitute value, so
\* every stored result belongs to an atom all of whose references are stored.
UnresolvedReferenceFails ==
    run > 0 =>
        /\ \A id \in DOMAIN results : ~Unresolved(ComputedBy(id), results)
        /\ (Finished /\ AtStep /\ Unresolved(Steps[idx], results)) =>
                outcome = UnresolvedReferenceError

\* An execution failing on a reference to an atom that is not listed in
\* dependsOn and is ordered after the referring atom.
UnresolvedReferenceWitness ==
    /\ run > 0 /\ Finished /\ AtStep
    /\ \E r \in RefsOf(Steps[idx]) :
        /\ ~Stored(results, r)
        /\ r \notin ListedIn(Steps[idx])
        /\ \E k \in (idx + 1)..Len(Steps) : Steps[k].id = r /\ Steps[k].kind = "tool"
    /\ outcome = UnresolvedReferenceError

\* ---------------------------------------------------------------- C10
DeclaredPlan(plan) == UniqueIds(plan) /\ Acyclic(plan) /\ RefsDeclared(plan)

FinalWithoutReference(plan) ==
    /\ UniqueIds(plan) /\ DepsNameAtoms(plan) /\ ToolDepsAreTools(plan)
    /\ Acyclic(plan) /\ RefsDeclared(plan) /\ OneFinal(plan)
    /\ TerminalAtom(plan).dependsOn = <<>>
    /\ \A i \in 1..Len(plan) : plan[i].kind = "tool" =>
            plan[i].name \in Ops /\ Defined(Eval(plan, plan[i].id))
MissingFinalReferenceError == Raised("IndexError", "return")

\* C11: the execution of a plan whose final atom has an empty dependsOn (and
\* which is valid otherwise) ends in the error of the missing final reference,
\* the failed read of dependsOn[0], and returns no value.
EmptyFinalReferenceFails ==
    (run > 0 /\ Finished /\ FinalWithoutReference(atom_plan)) =>
        outcome = MissingFinalReferenceError

\* ---------------------------------------------------------------- C12
HasUnknownName(plan) ==
    \E i \in 1..Len(plan) : plan[i].kind = "tool" /\ plan[i].name \notin Ops
UnknownOperationError == Raised("ValueError", "build")

\* C12: the execution of a plan (unique ids, dependsOn naming atoms of the
\* plan, no cycle) with a tool atom whose name is none of add, subtract,
\* multiply, divide ends in the unknown-operation error, whether or not the
\* final atom depends on that atom.
UnknownOperationFails ==
    (run > 0 /\ Finished /\ HasUnknownName(atom_plan) /\ SortablePlan(atom_plan)) =>
        outcome = UnknownOperationError

\* ---------------------------------------------------------------- C13
\* What makes a document invalid, read off the document.
IsInteger(t) == t = "int"
AtomViolates(atom) ==
    \/ atom.type # "dict"
    \/ ~({"id", "kind", "name", "dependsOn"} \subseteq atom.keys)
    \/ atom.kind \notin {"tool", "final"}
    \/ ~IsInteger(atom.id)
    \/ ~atom.depsList
    \/ \E k \in 1..Len(atom.deps) : ~IsInteger(atom.deps[k])
    \/ /\ atom.kind = "tool"
       /\ \/ "input" \notin atom.keys
          \/ atom.input # "dict"
          \/ ~({"a", "b"} \subseteq atom.inputKeys)
DocumentViolates(data) ==
    \/ data.type # "dict"
    \/ ~data.hasAtoms
    \/ data.atomsType # "list"
    \/ \E k \in 1..Len(data.atoms) : AtomViolates(data.atoms[k])
    \/ data.atoms = <<>>
    \/ data.atoms[Len(data.atoms)].type = "dict" /\ data.atoms[Len(data.atoms)].kind # "final"

\* C13: validation fails, with nothing of the plan executed, exactly when the
\* root is not a mapping or has no 'atoms' list, an atom is not a mapping or
\* lacks id, kind, name or dependsOn, kind is not tool or final, id is not an
\* integer, dependsOn is not a list of integers, a tool atom lacks an input
\* mapping or a or b in it, or the last atom is not final (the empty list
\* included); every other document is accepted.
ValidationRejectsExactlyTheInvalid ==
    verdict # NoVerdict =>
        /\ verdict.kind = (IF DocumentViolates(raw) THEN "raised" ELSE "accepted")
        /\ run = 0 /\ results = EmptyResults

\* ---------------------------------------------------------------- C14
\* C14: within one execution the tool atoms run one after another in the
\* resolved order: whenever the execution stands at a step, the results stored
\* are exactly those of the steps before it, and a step of the execution that
\* stores a result stores the result of the atom it stands at, nothing else,
\* and moves to the next atom of the order.
OneAtomAtATime ==
    /\ [](run > 0 /\ pc \in {"loop", "pipe"} => DOMAIN results = ExecutedIds)
    /\ [][(pc \in {"loop", "pipe"} /\ results' # results) =>
            /\ idx' = idx + 1
            /\ DOMAIN results' = DOMAIN results \cup {Steps[idx].id}
            /\ \A id \in DOMAIN results \ {Steps[idx].id} : results'[id] = results[id]]_vars

\* An execution standing at the second of two atoms neither of which depends
\* on the other, with the result of the first stored.
OneAtomAtATimeWitness ==
    /\ run > 0 /\ pc \in {"loop", "pipe"} /\ idx = 2 /\ Len(Steps) >= 2
    /\ Steps[2].kind = "tool"
    /\ Steps[1].id \notin ListedIn(Steps[2]) \cup RefsOf(Steps[2])
    /\ Steps[2].id \notin ListedIn(Steps[1]) \cup RefsOf(Steps[1])
    /\ DOMAIN results = {Steps[1].id}

\* ---------------------------------------------------------------- C15
\* What CalculatorRunnable.invoke gives for a plan when nothing else runs.
RECURSIVE RunUnits(_, _, _, _)
RunUnits(units, i, out, config) ==
    LET res == DeferredCall(units[i], TRUE, out, config)
    IN  IF ~res.ok
        THEN Raised(res.err, IF res.err = "KeyError" THEN "resolve" ELSE "invoke")
        ELSE IF i = Len(units) THEN Returned(res.val)
        ELSE RunUnits(units, i + 1, res.val, KeepInConfig(config, units[i].id, res.val))
RunAlone(plan) ==
    LET order == TopologicalSort(plan)
        built == BuildPipeline(order.sorted)
    IN  IF order.err # "" THEN Raised(order.err, "sort")
        ELSE IF ~built.ok THEN Raised(built.err, "build")
        ELSE IF built.units = <<>> THEN Raised("AttributeError", "invoke")
        ELSE RunUnits(built.units, 1, Num(1), EmptyResults)
TaskFinished(t) == tasks[t].pc \in {"returned", "raised"}

\* C15: of the executions a batch runs over one CalculatorRunnable, however
\* their steps interleave, each ends as the execution of its own plan alone
\* ends, and the results an execution holds are those of atoms of its own
\* plan that it ran itself.
ConcurrentExecutionsIsolated ==
    \A t \in DOMAIN tasks :
        /\ TaskFinished(t) => tasks[t].outcome = RunAlone(tasks[t].plan)
        /\ tasks[t].pc = "pipe" =>
                DOMAIN heap[tasks[t].config] =
                    {tasks[t].pipeline[k].id : k \in 1..(tasks[t].idx - 1)}

\* Two executions of different plans both between their first and second
\* unit, each holding another result for the same atom id, and the instance
\* holding the plan of the execution that started last.
ConcurrentExecutionsWitness ==
    /\ DOMAIN tasks = 1..BatchSize
    /\ tasks[1].pc = "pipe" /\ tasks[1].idx = 2
    /\ tasks[2].pc = "pipe" /\ tasks[2].idx = 2
    /\ \E id \in DOMAIN heap[1] \cap DOMAIN heap[2] : heap[1][id] # heap[2][id]
    /\ \E r \in RefsOf(tasks[1].pipeline[2]) : Stored(heap[1], r)
    /\ instance.atom_plan = tasks[2].plan /\ instance.atom_plan # tasks[1].plan

\* ------------------------------------------------------ composable units
\* C16: batch returns a list as long as its inputs whose i-th element is what
\* invoke of the i-th input alone returns, in whatever order the invocations
\* finish; it raises only an error that invoke of one input alone raises; and
\* without a config argument every invocation is given the empty config.
BatchIsInvokeOfEach ==
    /\ stage = "gathered" /\ gathered.kind = "returned" =>
         /\ Len(gathered.vals) = Len(Inputs)
         /\ \A i \in 1..Len(Inputs) :
              LET alone == Invoke(Chain.unit, Inputs[i], BatchConfigOf(config_arg))
              IN  alone.ok /\ gathered.vals[i] = alone.val
    /\ stage = "gathered" /\ gathered.kind = "raised" =>
         \E i \in 1..Len(Inputs) :
              LET alone == Invoke(Chain.unit, Inputs[i], BatchConfigOf(config_arg))
              IN  ~alone.ok /\ gathered.err = alone.err
    /\ stage \in {"dispatched", "gathered"} /\ config_arg.none =>
         \A j \in DOMAIN jobs : \A k \in DOMAIN jobs[j].log :
              jobs[j].log[k].config = EmptyResults
\* A batch whose second invocation finished before its first, that returned
\* different values for the two, in the order of the inputs.
BatchIsInvokeOfEachWitness ==
    /\ stage = "gathered" /\ gathered.kind = "returned"
    /\ done[1] = 2
    /\ gathered.vals[1] # gathered.vals[2]
    /\ gathered.vals[1] = Invoke(Chain.unit, Inputs[1], BatchConfigOf(config_arg)).val

\* C17: (A.pipe(B)).pipe(C) and A.pipe(B.pipe(C)) both give a unit, the two
\* units give the same result or the same error for every input, and both
\* print as "A | B | C".
PrintedFlat == <<abc[1].name, " | ", abc[2].name, " | ", abc[3].name>>
PipeAssociative ==
    stage = "composed" /\ grouping # "direct" =>
        /\ left.ok /\ right.ok
        /\ Str(left.unit) = PrintedFlat
        /\ Str(right.unit) = PrintedFlat
        /\ \A i \in 1..Len(Inputs) :
             Invoke(left.unit, Inputs[i], BatchConfigOf(config_arg))
               = Invoke(right.unit, Inputs[i], BatchConfigOf(config_arg))

\* C18: both groupings give a sequence whose list is exactly [A, B, C], no
\* element of it a sequence.
PipeFlattens ==
    stage = "composed" /\ grouping # "direct" =>
        /\ left.ok /\ right.ok
        /\ left.unit.runnables = abc
        /\ right.unit.runnables = abc
        /\ \A k \in 1..3 : ~left.unit.runnables[k].seq /\ ~right.unit.runnables[k].seq

\* C19: an invocation of a sequence calls its units once each in list order:
\* the first with the input, each later one with the output of the one before
\* it, all with the config of the invocation; it returns the output of the
\* last unit; when a unit raises no later unit is called and the invocation
\* raises that error.
SequenceInvokesInOrder ==
    stage \in {"dispatched", "gathered"} =>
        \A j \in DOMAIN jobs :
            LET calls == Calls(Chain.unit)
                log == jobs[j].log
                n == Len(log)
            IN  /\ n <= Len(calls)
                /\ \A k \in 1..n :
                     /\ log[k].unit = calls[k]
                     /\ log[k].input = IF k = 1 THEN Inputs[j] ELSE log[k - 1].out
                     /\ log[k].config = BatchConfigOf(config_arg)
                     /\ k < n => log[k].ok
                /\ jobs[j].pc = "run" => n < Len(calls) /\ (n > 0 => log[n].ok)
                /\ jobs[j].pc = "returned" =>
                     /\ n = Len(calls) /\ log[n].ok
                     /\ jobs[j].outcome = Returned(log[n].out)
                /\ jobs[j].pc = "raised" =>
                     /\ n > 0 /\ ~log[n].ok
                     /\ jobs[j].outcome = Raised(log[n].err, "invoke")
\* RunnableSequence([A, B, C]) returned for an input after three calls, each
\* of which changed the value, under a config that is not empty.
SequenceInvokesInOrderWitness ==
    /\ stage = "dispatched" /\ grouping = "direct"
    /\ cfg # EmptyResults
    /\ \E j \in DOMAIN jobs :
         /\ jobs[j].pc = "returned"
         /\ Len(jobs[j].log) = 3
         /\ jobs[j].log[1].out # Inputs[j]
         /\ jobs[j].log[2].out # jobs[j].log[1].out
         /\ jobs[j].log[3].out # jobs[j].log[2].out
         /\ jobs[j].outcome.val = jobs[j].log[3].out

\* C20: a call of a DeferredRunnable with input x and config c resolves the
\* constructor argument from c, then builds the unit with the factory, then
\* resolves the invoke argument from c (takes x when it has no accessor for
\* it), then invokes the built unit once; it returns what that unit returned,
\* and c is the same after the call as before it.
TraceNames(t) == [k \in DOMAIN t |-> t[k].ev]
DeferredOrder(hasInvokeArg) ==
    <<"get_constructor_arg", "factory">>
    \o (IF hasInvokeArg THEN <<"get_invoke_arg">> ELSE <<>>) \o <<"invoke">>
DeferredEntryInOrder(e) ==
    LET t == e.trace
        n == Len(t)
        order == DeferredOrder(e.unit.hasInvokeArg)
        node == e.unit.node
    IN  /\ n >= 1 /\ n <= Len(order)
        /\ TraceNames(t) = SubSeq(order, 1, n)
        /\ \A k \in 1..(n - 1) : t[k].ok
        /\ e.ok = (n = Len(order) /\ t[n].ok)
        /\ n >= 2 => t[2].val = ResolveValue(node.b, e.config).val
        /\ n = Len(order) =>
             /\ t[n].val = IF e.unit.hasInvokeArg
                           THEN ResolveValue(node.a, e.config).val ELSE e.input
             /\ e.ok => e.out = FactoryCall(node.name, t[2].val, t[n].val).val
StreamYieldsInvokeResult ==
    stage = "streamed" =>
        \A i \in 1..Len(Inputs) :
            LET r == Invoke(Chain.unit, Inputs[i], BatchConfigOf(config_arg))
                st == streamed[i].stream
            IN  /\ st.ok = r.ok
                /\ r.ok => st.items = <<r.val>>
                /\ ~r.ok => st.items = <<>> /\ st.err = r.err
\* The stream of a sequence that pipe made of three units, which yielded one
\* value that is not the input.
StreamYieldsInvokeResultWitness ==
    /\ stage = "streamed" /\ grouping \in {"left", "right"}
    /\ Chain.unit.seq /\ Len(Calls(Chain.unit)) = 3
    /\ streamed[1].stream.ok
    /\ Len(streamed[1].stream.items) = 1
    /\ streamed[1].stream.items[1] # Inputs[1]
    /\ streamed[1].stream.items[1]
         = Invoke(Chain.unit, Inputs[1], BatchConfigOf(config_arg)).val

\* ------------------------------------------------------------ chat runner
\* C22: when process_messages has ended, every answer of the model that held
\* a plan with a value has that result in the conversation as one tool turn:
\* add_message got exactly one ToolMessage for it.
ToolTurns(n) == {k \in DOMAIN arrived : arrived[k].of = n}
OneToolTurnPerPlan ==
    cpc \in {"done", "raised"} =>
        \A i \in DOMAIN inferences :
            inferences[i].plan = "plan" /\ ValidPlan(inferences[i].doc) =>
                Cardinality(ToolTurns(inferences[i].n)) = 1

\* ------------------------------------------------------ JsonParserRunnable
\* C23: invoke of a JsonParserRunnable on an input that is empty or is not
\* valid JSON does not raise: it returns a falsy value when the parser was
\* made without an error message, and the error message when it was made
\* with one.
NotJson(input) == input.falsy \/ input.type # "str" \/ ~JsonLoads(input.holds).ok
ParserNeverRaises ==
    step = "called" /\ subject.class = "JsonParserRunnable" /\ NotJson(subject.input) =>
        /\ reply.kind = "returned"
        /\ obj.error = PyNone => reply.val.falsy
        /\ obj.error # PyNone => reply.val = obj.error

\* ------------------------------------------------------- flatten_numbers
\* C27: MultiplicationRunnable returns the product of all numbers in its
\* constructor values and its input, at any depth: an item that is not a
\* number and a list without a number change nothing.  AdditionRunnable
\* returns their sum.
RECURSIVE NumbersIn(_)
RECURSIVE NumbersFrom(_, _)
NumbersFrom(items, i) ==
    IF i > Len(items) THEN <<>> ELSE NumbersIn(items[i]) \o NumbersFrom(items, i + 1)
NumbersIn(item) ==
    CASE item.t = "num" -> <<item.v>>
      [] item.t = "list" -> NumbersFrom(item.items, 1)
      [] OTHER -> <<>>
AllNumbers == NumbersFrom(subject.args, 1) \o NumbersIn(subject.input)
ProductOfAllNumbers ==
    step = "called" /\ subject.class # "JsonParserRunnable" =>
        /\ reply.kind = "returned"
        /\ subject.class = "MultiplicationRunnable" => reply.val = Prod(AllNumbers)
        /\ subject.class = "AdditionRunnable" => reply.val = Sum(AllNumbers)

\* ---------------------------------------------------------------- C24
\* A plan the validation accepts, a final atom before the last position
\* allowed: unique ids, dependsOn naming tool atoms of the plan, no cycle,
\* back-references declared, known operations, no zero divisor, the last atom
\* final, every final atom with something to depend on.
AcceptedPlan(plan) ==
    /\ UniqueIds(plan)
    /\ DepsNameAtoms(plan)
    /\ \A i \in 1..Len(plan) : \A d \in ListedIn(plan[i]) : IsTool(plan, d)
    /\ Acyclic(plan)
    /\ RefsDeclared(plan)
    /\ TerminalAtom(plan).kind = "final"
    /\ \A i \in 1..Len(plan) : plan[i].kind = "final" => plan[i].dependsOn # <<>>
    /\ \A i \in 1..Len(plan) : plan[i].kind = "tool" => plan[i].name \in Ops
    /\ \A i \in 1..Len(plan) : plan[i].kind = "tool" => Defined(Eval(plan, plan[i].id))
ToolStepsDone == {k \in 1..(idx - 1) : sorted_atoms[k].kind = "tool"}

\* C24: execute_plan on a validated acyclic plan returns a value, and by then
\* every tool atom of the plan has been executed exactly once, also when a
\* final atom stands before the last position of the atom list.
EveryToolAtomRunsOnce ==
    (Calculating /\ AcceptedPlan(atom_plan) /\ Finished) =>
        /\ pc = "returned"
        /\ DOMAIN results = ToolAtomIds(atom_plan)
        /\ Cardinality(ToolStepsDone) = Cardinality(ToolAtomIds(atom_plan))

NoReferenceB(plan) == \A i \in 1..Len(plan) : plan[i].kind = "tool" => ~plan[i].b.ref
\* C26: for a valid plan in which no atom's input b is a back-reference,
\* build_and_run_pipeline returns a value and execute_plan returns the same.
LinearAgreesWithExecutePlan ==
    (engine = "Linear" /\ run > 1 /\ ValidPlan(atom_plan) /\ NoReferenceB(atom_plan)) =>
        /\ pc = "returned"
        /\ prev.outcome.kind = "returned"
        /\ outcome.val = prev.outcome.val

\* ---------------------------------------------------------------- C28
RetainedOthers == SelectSeq(chat_messages, NotSystemMessage)
ArrivedOthers == SelectSeq(arrived, NotSystemMessage)
\* C28: after every add_message the history holds at most max_chat_length
\* messages, and its messages other than the system message are the most
\* recently added ones, in the order in which they arrived.
HistoryWithinMaxChatLength ==
    /\ Len(chat_messages) <= max_chat_length
    /\ Len(RetainedOthers) <= Len(ArrivedOthers)
    /\ RetainedOthers = SubSeq(ArrivedOthers,
                               Len(ArrivedOthers) - Len(RetainedOthers) + 1,
                               Len(ArrivedOthers))

\* ---------------------------------------------------------------- C29
ArrivedSystem == SelectSeq(arrived, IsSystemMessage)
\* C29: after every add_message the history holds at most one SystemMessage;
\* when a SystemMessage was ever added, the history holds the first that was
\* added, at its front, whatever was added after it.
FirstSystemMessageKept ==
    /\ Len(SelectSeq(chat_messages, IsSystemMessage)) <= 1
    /\ Len(ArrivedSystem) > 0 =>
        /\ Len(chat_messages) > 0
        /\ chat_messages[1] = ArrivedSystem[1]

\* Two system messages and another message were added: the history holds the
\* first system message at its front and the other message, not the second
\* system message.
FirstSystemMessageKeptWitness ==
    /\ Len(ArrivedSystem) >= 2
    /\ Len(RetainedOthers) > 0
    /\ Len(chat_messages) < Len(arrived)
    /\ chat_messages[1] = ArrivedSystem[1]
    /\ \A k \in 2..Len(chat_messages) : chat_messages[k] # ArrivedSystem[2]

\* ---------------------------------------------------------------- C30
InferencesFor(n) == {i \in DOMAIN inferences : inferences[i].n = n}
\* The last plan handed to the calculator failed in its execution.
PlanExecutionRaised ==
    /\ cpc = "raised"
    /\ inferences # <<>>
    /\ inferences[Len(inferences)].plan = "plan"
    /\ ExecutePlan(inferences[Len(inferences)].doc).kind = "raised"
\* C30: process_messages terminates, provided each plan execution returns:
\* the call ends, and it ends with the queue empty, with one inference for
\* each human message of its list, none for a system or tool message, and
\* at most one tool message made per inference.
ProcessMessagesTerminates ==
    /\ (cpc = "loop") ~> (cpc \in {"done", "raised"})
    /\ []((cpc \in {"done", "raised"} /\ ~PlanExecutionRaised) =>
            /\ cpc = "done"
            /\ message_queue = <<>>
            /\ \A k \in DOMAIN listed :
                Cardinality(InferencesFor(listed[k].n))
                    = (IF listed[k].type = "human" THEN 1 ELSE 0)
            /\ \A i \in DOMAIN inferences :
                /\ \A k \in DOMAIN arrived :
                    arrived[k].n = inferences[i].n => arrived[k].type \notin {"system", "tool"}
                /\ Cardinality({arrived[k].n : k \in ToolTurns(inferences[i].n)}) <= 1)

====
